---- MODULE Spec2Model ----
(***************************************************************************)
(* A model of chromatic.color.core: the SGR codec (colorbytes and its      *)
(* three formats, SgrParamWrapper, SgrSequence) and the immutable styled   *)
(* string ColorStr built on it.                                            *)
(*                                                                         *)
(* bytes and str values are sequences of byte values.  An exception is a   *)
(* field exc of an operation's result ("" when the call returns), and the  *)
(* object state returned with it is the state the call left behind.        *)
(***************************************************************************)
EXTENDS Integers, Sequences, FiniteSets, TLC

VARIABLES
    seq,    \* the SgrSequence object the caller holds
    last,   \* the last call on it: its name, arguments, outcome and the object before
    steps,  \* the number of calls made
    hist,   \* the calls made, oldest first, where a claim speaks of a series of calls
    cval,   \* the colour code, colour spec or byte string a series of calls is about
    heap,   \* the SgrSequence objects ColorStr values refer to, by position
    cs,     \* the ColorStr value the caller holds
    DEFAULT_ANSI  \* the format get_term_ansi_default() gave at import: "4b" or "8b"

vars == <<seq, last, steps, hist, cval, heap, cs, DEFAULT_ANSI>>

-----------------------------------------------------------------------------
(* Bounds of the exploration.                                              *)

\* the longest list of codes a sequence is constructed from
MaxInitLen == 2
\* the longest list of codes the right operand of + is constructed from
MaxAddLen == 1
\* the number of calls made on a sequence after its construction
MaxSteps == 2
\* the number of calls of a series about one colour code
MaxScript == 5

-----------------------------------------------------------------------------
(* bytes                                                                   *)

ESC == 27
LBRACKET == 91
SEMI == 59
LOWER_M == 109
ZERO == 48

CSI == <<ESC, LBRACKET>>
SGR_RESET == <<ESC, LBRACKET, ZERO, LOWER_M>>

RECURSIVE IntToBytes(_)
\* b'%d' % n, n >= 0
IntToBytes(n) ==
    IF n < 10 THEN <<ZERO + n>>
    ELSE IntToBytes(n \div 10) \o <<ZERO + (n % 10)>>

IsDigit(c) == c >= ZERO /\ c <= ZERO + 9

RECURSIVE DigitsValue(_)
DigitsValue(b) ==
    IF b = <<>> THEN 0
    ELSE 10 * DigitsValue(SubSeq(b, 1, Len(b) - 1)) + (b[Len(b)] - ZERO)

\* int(b) for a bytes value: -1 stands for ValueError (empty, or a byte that
\* is no digit, such as ';')
BytesToInt(b) ==
    IF b # <<>> /\ \A i \in 1..Len(b) : IsDigit(b[i]) THEN DigitsValue(b) ELSE -1

RECURSIVE JoinB(_, _)
\* sep.join(parts)
JoinB(parts, sep) ==
    IF parts = <<>> THEN <<>>
    ELSE IF Len(parts) = 1 THEN parts[1]
    ELSE parts[1] \o sep \o JoinB(Tail(parts), sep)

RECURSIVE SplitB(_, _)
\* b.split(sep) for a one-byte separator
SplitB(b, sep) ==
    IF \A i \in 1..Len(b) : b[i] # sep THEN <<b>>
    ELSE LET i == CHOOSE j \in 1..Len(b) :
                      b[j] = sep /\ \A k \in 1..(j - 1) : b[k] # sep
         IN  <<SubSeq(b, 1, i - 1)>> \o SplitB(SubSeq(b, i + 1, Len(b)), sep)

StartsWith(b, p) == Len(b) >= Len(p) /\ SubSeq(b, 1, Len(p)) = p

EndsWith(b, p) == Len(b) >= Len(p) /\ SubSeq(b, Len(b) - Len(p) + 1, Len(b)) = p

RemovePrefix(b, p) == IF StartsWith(b, p) THEN SubSeq(b, Len(p) + 1, Len(b)) ELSE b

RemoveSuffix(b, p) == IF EndsWith(b, p) THEN SubSeq(b, 1, Len(b) - Len(p)) ELSE b

\* b.find(c): the index (from 0) of the first byte c, -1 when absent
FindByte(b, c) ==
    IF \A i \in 1..Len(b) : b[i] # c THEN -1
    ELSE (CHOOSE j \in 1..Len(b) : b[j] = c /\ \A k \in 1..(j - 1) : b[k] # c) - 1

\* b.count(p)
CountSub(b, p) ==
    Cardinality({i \in 1..Len(b) : i + Len(p) - 1 <= Len(b)
                                   /\ SubSeq(b, i, i + Len(p) - 1) = p})

\* F of the value v: the value is computed once and F sees the result
Bind(v, F(_)) == CHOOSE r \in {F(x) : x \in {v}} : TRUE

-----------------------------------------------------------------------------
(* colorconv: the palette functions core.py imports.                       *)

RGB4 ==
    <<  <<0, 0, 0>>,      <<170, 0, 0>>,    <<0, 170, 0>>,    <<170, 85, 0>>,
        <<0, 0, 170>>,    <<170, 0, 170>>,  <<0, 170, 170>>,  <<170, 170, 170>>,
        <<85, 85, 85>>,   <<255, 85, 85>>,  <<85, 255, 85>>,  <<255, 255, 85>>,
        <<85, 85, 255>>,  <<255, 85, 255>>, <<85, 255, 255>>, <<255, 255, 255>> >>

Sq(x) == x * x

\* the squared distance of two triples
Dist2(a, b) ==
    Bind(<<a, b>>, LAMBDA p : Sq(p[1][1] - p[2][1]) + Sq(p[1][2] - p[2][2])
                                + Sq(p[1][3] - p[2][3]))

\* the index in 0..15 of a 4-bit code 30-37, 40-47, 90-97, 100-107
Index4(code) == (code % 10) + (IF code >= 90 THEN 8 ELSE 0)

ansi_4bit_to_rgb(code) == RGB4[Index4(code) + 1]

RECURSIVE ArgMin(_, _, _)
\* the lowest index from i on whose value in d is least, best being the least before i
ArgMin(d, i, best) ==
    IF i > Len(d) THEN best
    ELSE ArgMin(d, i + 1, IF d[i] < d[best] THEN i ELSE best)

\* nearest of the 16 reference triples, ties to the lowest index
Nearest4Index(rgb) == ArgMin([i \in 1..16 |-> Dist2(RGB4[i], rgb)], 2, 1) - 1

nearest_ansi_4bit_rgb(rgb) == RGB4[Nearest4Index(rgb) + 1]

CubeLevels == <<0, 95, 135, 175, 215, 255>>

ansi_8bit_to_rgb(n) ==
    IF n < 16 THEN RGB4[n + 1]
    ELSE IF n < 232
    THEN LET c == n - 16
         IN  <<CubeLevels[(c \div 36) + 1], CubeLevels[((c \div 6) % 6) + 1],
               CubeLevels[(c % 6) + 1]>>
    ELSE LET g == 8 + 10 * (n - 232) IN <<g, g, g>>

Abs(x) == IF x < 0 THEN -x ELSE x

\* nearest cube level index of one channel, ties to the lowest
NearestLevel(x) == ArgMin([i \in 1..6 |-> Abs(CubeLevels[i] - x)], 2, 1) - 1

\* nearest step of the greyscale ramp 8, 18, ..., 238, ties to the lowest
NearestGrey(rgb) ==
    ArgMin([i \in 1..24 |-> Dist2(<<10 * i - 2, 10 * i - 2, 10 * i - 2>>, rgb)], 2, 1) - 1

\* the best of three candidates, ties in the order base, cube, greyscale
rgb_to_ansi_8bit(rgb) ==
    LET base == Nearest4Index(rgb)
        cube == 16 + 36 * NearestLevel(rgb[1]) + 6 * NearestLevel(rgb[2])
                   + NearestLevel(rgb[3])
        grey == 232 + NearestGrey(rgb)
    IN  Bind(<<base, cube, grey>>, LAMBDA c :
        Bind([i \in 1..3 |-> Dist2(ansi_8bit_to_rgb(c[i]), rgb)], LAMBDA d :
            IF d[1] <= d[2] /\ d[1] <= d[3] THEN c[1]
            ELSE IF d[2] <= d[3] THEN c[2]
            ELSE c[3]))

\* hex2rgb: the channels of a packed 24-bit integer
hex2rgb(n) == <<(n \div 65536) % 256, (n \div 256) % 256, n % 256>>

\* rgb2hex: the packed integer of three channels
rgb2hex(rgb) == rgb[1] * 65536 + rgb[2] * 256 + rgb[3]

-----------------------------------------------------------------------------
(* Insertion-ordered dict {key: rgb}, as a sequence of <<key, rgb>> pairs.  *)

DictKeys(d) == {d[i][1] : i \in 1..Len(d)}

DictHas(d, k) == k \in DictKeys(d)

DictGet(d, k) == d[CHOOSE i \in 1..Len(d) : d[i][1] = k][2]

\* del d[k]
DictDel(d, k) == SelectSeq(d, LAMBDA e : e[1] # k)

\* d[k] = v: a present key keeps its position
DictSet(d, k, v) ==
    IF DictHas(d, k) THEN [i \in 1..Len(d) |-> IF d[i][1] = k THEN <<k, v>> ELSE d[i]]
    ELSE Append(d, <<k, v>>)

RECURSIVE DictUpdate(_, _)
\* d |= e
DictUpdate(d, e) ==
    IF e = <<>> THEN d
    ELSE DictUpdate(DictSet(d, e[1][1], e[1][2]), Tail(e))

\* d == e for dicts: the same keys with the same values, in any order
DictEq(d, e) ==
    /\ DictKeys(d) = DictKeys(e)
    /\ \A k \in DictKeys(d) : DictGet(d, k) = DictGet(e, k)

-----------------------------------------------------------------------------
(* The lookup tables of core.py.                                           *)

ANSI16C_STD == (30..37) \cup (40..47)

ANSI16C_BRIGHT == (90..97) \cup (100..107)

ANSI16C == ANSI16C_STD \cup ANSI16C_BRIGHT

\* _ANSI16C_I2KV: {code: (key, rgb)}
ANSI16C_I2KV_DICT ==
    [c \in ANSI16C |->
        <<IF c \in (30..37) \cup (90..97) THEN "fg" ELSE "bg", ansi_4bit_to_rgb(c)>>]

ANSI16C_I2KV(code) == ANSI16C_I2KV_DICT[code]

\* _ANSI16C_KV2I: {(key, rgb): code}
ANSI16C_KV2I_DICT ==
    [kv \in {ANSI16C_I2KV_DICT[c] : c \in ANSI16C} |->
        CHOOSE c \in ANSI16C : ANSI16C_I2KV_DICT[c] = kv]

ANSI16C_KV2I(k, rgb) == ANSI16C_KV2I_DICT[<<k, rgb>>]

\* _ANSI256_KEY2I
ANSI256_KEY2I(k) == IF k = "fg" THEN 38 ELSE 48

\* _ANSI256_B2KEY, on the integer the bytes spell
ANSI256_B2KEY(n) == IF n = 38 THEN "fg" ELSE "bg"

\* the values of the enum SgrParameter
SGR_PARAM_VALUES ==
    (0..26) \cup (28..50) \cup (52..55) \cup (60..63) \cup (90..97) \cup (100..107)

-----------------------------------------------------------------------------
(* colorbytes: a bytes value with a class and an _rgb_dict_ of one key.    *)
(* A plain bytes value has the class "bytes" and an empty dict.            *)

AnsiTypes == {"4b", "8b", "24b"}

PlainBytes(b) == [cls |-> "bytes", value |-> b, rgb_dict |-> <<>>]

ColorBytes(cls, b, k, rgb) == [cls |-> cls, value |-> b, rgb_dict |-> << <<k, rgb>> >>]

rgb2ansi_color_esc(fmt, mode, rgb) ==
    IF fmt = "4b"
    THEN IntToBytes(ANSI16C_KV2I(mode, nearest_ansi_4bit_rgb(rgb)))
    ELSE JoinB([i \in 1..(IF fmt = "8b" THEN 3 ELSE 5) |->
                   IntToBytes((<<ANSI256_KEY2I(mode)>>
                               \o (IF fmt = "8b" THEN <<5, rgb_to_ansi_8bit(rgb)>>
                                   ELSE <<2>> \o rgb))[i])],
               <<SEMI>>)

\* cls.from_rgb({k: rgb}) for a subclass cls: the stored dict is the argument
from_rgb(cls, k, rgb) == ColorBytes(cls, rgb2ansi_color_esc(cls, k, rgb), k, rgb)

\* colorbytes.__new__(cls, ansi): ansi is a plain bytes value or a colorbytes;
\* cls is "colorbytes" or one of the three subclasses
colorbytes_new(cls, ansi) ==
    LET is_subtype == cls # "colorbytes"
        found(typ, k, rgb) == [exc |-> "", typ |-> typ, k |-> k, rgb |-> rgb]
        fail(e) == [exc |-> e, typ |-> "", k |-> "", rgb |-> <<>>]
        \* the match on the split payload: the type, key and colour it spells
        match(parts, n) ==
            IF Len(parts) = 1
            THEN IF n[1] = -1 THEN fail("ValueError")
                 ELSE IF n[1] \notin ANSI16C THEN fail("KeyError")
                 ELSE found("4b", ANSI16C_I2KV(n[1])[1], ANSI16C_I2KV(n[1])[2])
            ELSE IF Len(parts) = 3 /\ parts[1] \in {<<51, 56>>, <<52, 56>>}
                    /\ parts[2] = <<53>>
            THEN IF n[3] = -1 \/ n[3] > 255 THEN fail("ValueError")
                 ELSE found("8b", ANSI256_B2KEY(n[1]), ansi_8bit_to_rgb(n[3]))
            ELSE IF Len(parts) = 5 /\ parts[1] \in {<<51, 56>>, <<52, 56>>}
                    /\ parts[2] = <<50>>
            THEN IF n[3] = -1 \/ n[4] = -1 \/ n[5] = -1 THEN fail("ValueError")
                 ELSE found("24b", ANSI256_B2KEY(n[1]), <<n[3], n[4], n[5]>>)
            ELSE fail("ValueError")
    IN  IF is_subtype /\ ansi.cls = cls THEN [exc |-> "", val |-> ansi]
        ELSE Bind(SplitB(RemoveSuffix(RemovePrefix(ansi.value, CSI), <<LOWER_M>>), SEMI),
                  LAMBDA parts :
             Bind(match(parts, [i \in 1..Len(parts) |-> BytesToInt(parts[i])]),
                  LAMBDA m :
                 IF m.exc # "" THEN [exc |-> m.exc, val |-> ansi]
                 ELSE [exc |-> "",
                       val |-> ColorBytes(m.typ,
                                   IF m.typ # cls
                                   THEN rgb2ansi_color_esc(IF is_subtype THEN cls ELSE m.typ,
                                                           m.k, m.rgb)
                                   ELSE ansi.value,
                                   m.k, m.rgb)]))

-----------------------------------------------------------------------------
(* Parsing of SGR parameters.                                              *)

\* an int in a stream of SGR values
IntItem(n) == [cls |-> "int", value |-> n, rgb_dict |-> <<>>]

\* the absent value None where an entry is expected
NoneItem == [cls |-> "None", value |-> <<>>, rgb_dict |-> <<>>]

Bit(n, k) == (n \div (2 ^ k)) % 2

\* bool(~c & 0x3b) for one byte c: false exactly when c has every bit of ';'
MaskBit(c) == ~(\A k \in {0, 1, 3, 4, 5} : Bit(c, k) = 1)

RECURSIVE ConcatDecimal(_)
\* ''.join(map(str, buffer)) as bytes
ConcatDecimal(buffer) ==
    IF buffer = <<>> THEN <<>>
    ELSE IntToBytes(buffer[1]) \o ConcatDecimal(Tail(buffer))

RECURSIVE BitmaskScan(_, _, _)
\* the loop over prepass of _get_sgr_bitmask, with alloc()
BitmaskScan(x, buffer, allocated) ==
    IF x = <<>>
    THEN [exc |-> "",
          ints |-> IF buffer # <<>>
                   THEN Append(allocated, BytesToInt(ConcatDecimal(buffer)))
                   ELSE allocated]
    ELSE IF MaskBit(x[1])
    THEN BitmaskScan(Tail(x), Append(buffer, x[1] % ZERO), allocated)
    ELSE IF buffer = <<>>
    THEN [exc |-> "ValueError", ints |-> allocated]
    ELSE BitmaskScan(Tail(x), <<>>, Append(allocated, BytesToInt(ConcatDecimal(buffer))))

\* _get_sgr_bitmask(x): the slice end is the index of 'm' in the argument as given
get_sgr_bitmask(x) ==
    LET idx == FindByte(x, LOWER_M)
        pre == RemovePrefix(x, CSI)
        cut == IF idx # -1
               THEN SubSeq(pre, 1, IF idx < Len(pre) THEN idx ELSE Len(pre))
               ELSE pre
    IN  BitmaskScan(RemoveSuffix(cut, <<LOWER_M>>), <<>>, <<>>)

RECURSIVE iter_normalized_list(_, _)
\* _iter_normalized_sgr over a list: ints and colorbytes pass, bytes are split by
\* _get_sgr_bitmask; in a list of SgrParamWrapper (wrapped) every item is unwrapped
\* and its value, colorbytes included, is split as bytes
iter_normalized_list(items, wrapped) ==
    IF items = <<>> THEN [exc |-> "", out |-> <<>>]
    ELSE LET it == items[1]
         IN  Bind(IF ~wrapped /\ (it.cls \in AnsiTypes \/ it.cls = "int")
                  THEN [exc |-> "", out |-> <<it>>]
                  ELSE Bind(get_sgr_bitmask(it.value), LAMBDA r :
                           [exc |-> r.exc,
                            out |-> [i \in 1..Len(r.ints) |-> IntItem(r.ints[i])]]),
                  LAMBDA one :
                 IF one.exc # "" THEN one
                 ELSE Bind(iter_normalized_list(Tail(items), wrapped), LAMBDA rest :
                          IF rest.exc # "" THEN rest
                          ELSE [exc |-> "", out |-> one.out \o rest.out]))

\* prepend an entry to the result of the rest of a stream
Cons(e, r) ==
    Bind(r, LAMBDA t : IF t.exc # "" THEN t ELSE [exc |-> "", out |-> <<e>> \o t.out])

RECURSIVE gen_colorbytes(_)
\* _gen_colorbytes with the coroutine _co_yield_colorbytes: a stream of ints and
\* colorbytes becomes a stream of bytes and colorbytes
gen_colorbytes(s) ==
    IF s = <<>> THEN [exc |-> "", out |-> <<>>]
    ELSE LET h == s[1]
             stop == [exc |-> "RuntimeError", out |-> <<>>]
         IN  IF h.cls \in AnsiTypes THEN Cons(h, gen_colorbytes(Tail(s)))
             ELSE IF h.value \in {38, 48}
             THEN IF Len(s) < 2 THEN stop
                  ELSE IF s[2].cls = "int" /\ s[2].value = 5
                  THEN IF Len(s) < 3 THEN stop
                       ELSE Bind(colorbytes_new("8b",
                                     PlainBytes(JoinB(<<IntToBytes(h.value), IntToBytes(5),
                                                        IntToBytes(s[3].value)>>, <<SEMI>>))),
                                 LAMBDA r :
                                IF r.exc # "" THEN [exc |-> r.exc, out |-> <<>>]
                                ELSE Cons(r.val, gen_colorbytes(SubSeq(s, 4, Len(s)))))
                  ELSE IF Len(s) < 5 THEN stop
                  ELSE Cons(from_rgb("24b", ANSI256_B2KEY(h.value),
                                     <<s[3].value, s[4].value, s[5].value>>),
                            gen_colorbytes(SubSeq(s, 6, Len(s))))
             ELSE IF h.value \in ANSI16C
             THEN Cons(from_rgb("4b", ANSI16C_I2KV(h.value)[1], ANSI16C_I2KV(h.value)[2]),
                       gen_colorbytes(Tail(s)))
             ELSE Cons(PlainBytes(IntToBytes(h.value)), gen_colorbytes(Tail(s)))

\* _iter_sgr(x) for a bytes literal
iter_sgr_bytes(b) ==
    Bind(get_sgr_bitmask(b), LAMBDA r :
        IF r.exc # "" THEN [exc |-> r.exc, out |-> <<>>]
        ELSE gen_colorbytes([i \in 1..Len(r.ints) |-> IntItem(r.ints[i])]))

\* _iter_sgr(x) for a list of ints, bytes and colorbytes
iter_sgr_list(items) ==
    Bind(iter_normalized_list(items, FALSE), LAMBDA r :
        IF r.exc # "" THEN r ELSE gen_colorbytes(r.out))

\* _iter_sgr(x) for a list of SgrParamWrapper
iter_sgr_wrappers(items) ==
    Bind(iter_normalized_list(items, TRUE), LAMBDA r :
        IF r.exc # "" THEN r ELSE gen_colorbytes(r.out))

\* _iter_sgr(x) for an int
iter_sgr_int(n) == gen_colorbytes(<<IntItem(n)>>)

-----------------------------------------------------------------------------
(* SgrSequence: _sgr_params_ (a list of SgrParamWrapper, here the wrapped   *)
(* values), _rgb_dict_, _has_bright_colors_ and the cache _bytes_.          *)

\* the value None of the cache _bytes_
None == <<-1>>

BOLD == <<49>>

EmptySgr ==
    [sgr_params |-> <<>>, rgb_dict |-> <<>>, has_bright_colors |-> FALSE, bytes |-> None]

\* SgrParamWrapper.is_color
IsColor(p) == p.cls \in AnsiTypes

\* SgrSequence.is_color
SeqIsColor(s) == \E i \in 1..Len(s.sgr_params) : IsColor(s.sgr_params[i])

\* SgrSequence.values
Values(s) == [i \in 1..Len(s.sgr_params) |-> s.sgr_params[i].value]

\* b'\x1b[%sm' % b';'.join(values)
Encode(vals) == CSI \o JoinB(vals, <<SEMI>>) \o <<LOWER_M>>

\* the encoding computed from the entries: what __bytes__ stores when the cache is None
FreshBytes(s) == IF s.sgr_params # <<>> THEN Encode(Values(s)) ELSE <<>>

\* SgrSequence.__bytes__: the cached value when there is one
SgrBytes(s) == IF s.bytes = None THEN FreshBytes(s) ELSE s.bytes

\* the sequence after __bytes__ filled the cache
Cached(s) == [s EXCEPT !.bytes = SgrBytes(s)]

RemoveAt(l, i) == SubSeq(l, 1, i - 1) \o SubSeq(l, i + 1, Len(l))

\* the position (from 1) of the first entry that satisfies Same, 0 when there is none
FirstIndex(l, Same(_)) ==
    IF \A i \in 1..Len(l) : ~Same(l[i]) THEN 0
    ELSE CHOOSE i \in 1..Len(l) : Same(l[i]) /\ \A j \in 1..(i - 1) : ~Same(l[j])

\* SgrParamWrapper.is_same_kind(other) for a bytes argument
is_same_kind_bytes(p, b) ==
    \/ p.value = b
    \/ \E r \in {iter_sgr_bytes(b)} : r.exc = "" /\ r.out # <<>> /\ r.out[1].value = p.value

\* is_same_kind(other) for an int: __eq__ is False, then the first of _iter_sgr
is_same_kind_int(p, n) ==
    \E r \in {iter_sgr_int(n)} : r.exc = "" /\ r.out # <<>> /\ r.out[1].value = p.value

\* is_same_kind(other) for a wrapper (or None): __eq__ compares the hashes of the
\* values; iterating a wrapper or None is a TypeError, which gives False
is_same_kind_wrapper(p, w) == w.cls # "None" /\ p.value = w.value

\* SgrSequence.index, from 1; 0 stands for ValueError
index_bytes(s, b) == FirstIndex(s.sgr_params, LAMBDA p : is_same_kind_bytes(p, b))

index_int(s, n) == FirstIndex(s.sgr_params, LAMBDA p : is_same_kind_int(p, n))

index_wrapper(s, w) == FirstIndex(s.sgr_params, LAMBDA p : is_same_kind_wrapper(p, w))

\* SgrSequence.get_color
get_color(s, key) ==
    LET i == FirstIndex(s.sgr_params, LAMBDA p : IsColor(p) /\ DictHas(p.rgb_dict, key))
    IN  IF i = 0 THEN NoneItem ELSE s.sgr_params[i]

RECURSIVE BoldScan(_)
\* the loop of pop over the remaining entries when bold is popped: "found" when
\* a standard 4-bit colour is met, "ValueError" when int() of an entry fails first
BoldScan(l) ==
    IF l = <<>> THEN "none"
    ELSE IF l[1].cls # "4b" THEN BoldScan(Tail(l))
    ELSE IF BytesToInt(l[1].value) = -1 THEN "ValueError"
    ELSE IF BytesToInt(l[1].value) \notin ANSI16C_STD THEN BoldScan(Tail(l))
    ELSE "found"

RECURSIVE pop(_, _)
\* SgrSequence.pop(i), i from 1: [s: the sequence afterwards, exc, obj]
pop(s, i) ==
    IF i \notin 1..Len(s.sgr_params)
    THEN [s |-> s, exc |-> "IndexError", obj |-> NoneItem]
    ELSE LET obj == s.sgr_params[i]
             s1  == [s EXCEPT !.sgr_params = RemoveAt(@, i)]
             done(t) == [s |-> [t EXCEPT !.bytes = None], exc |-> "", obj |-> obj]
             fail(t, e) == [s |-> t, exc |-> e, obj |-> obj]
         IN  IF IsColor(obj)
             THEN LET k == obj.rgb_dict[1][1]
                  IN  IF ~DictHas(s1.rgb_dict, k) THEN fail(s1, "KeyError")
                      ELSE LET s2 == [s1 EXCEPT !.rgb_dict = DictDel(@, k)]
                               vx == BytesToInt(obj.value)
                           IN  IF ~s2.has_bright_colors THEN done(s2)
                               ELSE IF vx = -1 THEN fail(s2, "ValueError")
                               ELSE IF vx \notin ANSI16C THEN done(s2)
                               ELSE LET s3 == [s2 EXCEPT !.has_bright_colors = FALSE]
                                    IN  IF vx \notin ANSI16C_STD THEN done(s3)
                                        ELSE Bind(index_bytes(s3, BOLD), LAMBDA bi :
                                            IF bi = 0 THEN fail(s3, "ValueError")
                                            ELSE Bind(pop(s3, bi), LAMBDA r :
                                                IF r.exc # "" THEN fail(r.s, r.exc)
                                                ELSE done(r.s)))
             ELSE IF s1.has_bright_colors /\ obj.value = BOLD
             THEN Bind(BoldScan(s1.sgr_params), LAMBDA scan :
                      IF scan = "ValueError" THEN fail(s1, "ValueError")
                      ELSE IF scan = "found"
                      THEN done([s1 EXCEPT !.has_bright_colors = FALSE])
                      ELSE done(s1))
             ELSE done(s1)

\* the value is looked up with find, and the last entry goes when it is absent
remove_by_find(s, n) ==
    Bind(index_int(s, n), LAMBDA i :
        IF s.sgr_params = <<>> THEN [s |-> s, exc |-> "IndexError", obj |-> NoneItem]
        ELSE pop(s, IF i = 0 THEN Len(s.sgr_params) ELSE i))

\* SgrSequence.remove(value) for an int value
remove(s, n) ==
    Bind(index_int(s, n), LAMBDA i :
        IF i = 0 THEN [s |-> s, exc |-> "ValueError", obj |-> NoneItem] ELSE pop(s, i))

\* the part of append after the wrapper v is made
AppendWrapper(s, v) ==
    LET k   == v.rgb_dict[1][1]
        add(t) == [s |-> [t EXCEPT !.sgr_params = Append(@, v), !.bytes = None], exc |-> ""]
    IN  IF ~IsColor(v) THEN add(s)
        ELSE IF ~DictHas(s.rgb_dict, k)
        THEN add([s EXCEPT !.rgb_dict = DictUpdate(@, v.rgb_dict)])
        ELSE Bind(index_wrapper(s, get_color(s, k)), LAMBDA idx :
            IF idx = 0 THEN [s |-> s, exc |-> "ValueError"]
            ELSE Bind(pop(s, idx), LAMBDA r :
                IF r.exc # "" THEN [s |-> r.s, exc |-> r.exc]
                ELSE add([r.s EXCEPT !.rgb_dict = DictUpdate(@, v.rgb_dict)])))

\* append without the promotion: bold stays and the colour is appended as given
append_without_promotion(s, value) ==
    IF value \notin SGR_PARAM_VALUES THEN [s |-> s, exc |-> "ValueError"]
    ELSE IF value \notin ANSI16C
    THEN AppendWrapper(s, PlainBytes(IntToBytes(value)))
    ELSE AppendWrapper([s EXCEPT !.has_bright_colors = value \in ANSI16C_BRIGHT],
                       from_rgb("4b", ANSI16C_I2KV(value)[1], ANSI16C_I2KV(value)[2]))

\* SgrSequence.append(value): [s: the sequence afterwards, exc]
append(s, value) ==
    LET col(c) == from_rgb("4b", ANSI16C_I2KV(c)[1], ANSI16C_I2KV(c)[2])
        \* the branch on a 4-bit colour: the sequence and the code that go on
        go(t, c) == [s |-> t, exc |-> "", code |-> c]
        branch ==
            IF value \in ANSI16C_BRIGHT THEN go([s EXCEPT !.has_bright_colors = TRUE], value)
            ELSE Bind(index_bytes(s, BOLD), LAMBDA b_idx :
                IF b_idx # 0
                THEN Bind(pop([s EXCEPT !.has_bright_colors = TRUE], b_idx), LAMBDA rb :
                         [s |-> rb.s, exc |-> rb.exc, code |-> value + 60])
                ELSE go([s EXCEPT !.has_bright_colors = FALSE], value))
    IN  IF value \notin SGR_PARAM_VALUES THEN [s |-> s, exc |-> "ValueError"]
        ELSE IF value \notin ANSI16C
        THEN AppendWrapper(s, PlainBytes(IntToBytes(value)))
        ELSE Bind(branch, LAMBDA b :
            IF b.exc # "" THEN [s |-> b.s, exc |-> b.exc]
            ELSE AppendWrapper(b.s, col(b.code)))

\* update_colors of __init__: the entry of the slot is replaced by param
update_colors(acc, param, x) ==
    LET k    == x.rgb_dict[1][1]
        slot == acc.color_dict[k]
        i    == FirstIndex(acc.sgr_params, LAMBDA p : p.value = slot.value)
        a1   == IF slot.cls = "None" THEN acc
                ELSE IF i = 0 THEN [acc EXCEPT !.exc = "ValueError"]
                ELSE [acc EXCEPT !.sgr_params = RemoveAt(@, i)]
    IN  IF a1.exc # "" THEN a1
        ELSE [a1 EXCEPT !.color_dict[k] = param,
                        !.rgb_dict = DictSet(@, k, x.rgb_dict[1][2])]

\* one iteration of the loop of __init__ over _iter_sgr(__iter)
InitStep(acc, x, ansi_type) ==
    LET add(a, param, y) ==
            IF a.exc # "" THEN a
            ELSE [a EXCEPT !.sgr_params = Append(@, param), !.values = @ \cup {y.value}]
        btoi  == BytesToInt(x.value)
        up    == ColorBytes("4b", IntToBytes(btoi + 60),
                            ANSI16C_I2KV(btoi + 60)[1], ANSI16C_I2KV(btoi + 60)[2])
        bi    == FirstIndex(acc.sgr_params, LAMBDA p : p.value = BOLD)
    IN  IF x.value \in acc.values THEN acc
        ELSE IF x.value = BOLD
        THEN add(IF acc.is_bold THEN acc ELSE [acc EXCEPT !.is_bold = TRUE, !.has_bold = TRUE],
                 x, x)
        ELSE IF ~IsColor(x) THEN add(acc, x, x)
        ELSE IF ansi_type # "None" /\ x.cls # ansi_type
        THEN [acc EXCEPT !.exc = "TypeError"]
        ELSE IF x.cls # "4b" THEN add(update_colors(acc, x, x), x, x)
        ELSE IF btoi = -1 THEN [acc EXCEPT !.exc = "ValueError"]
        ELSE IF btoi \in ANSI16C_BRIGHT
        THEN add(update_colors([acc EXCEPT !.has_bright_colors = TRUE], x, x), x, x)
        ELSE IF acc.is_bold /\ btoi \in ANSI16C_STD
        THEN LET a1 == [acc EXCEPT !.has_bright_colors = TRUE]
                 a2 == IF a1.has_bold
                       THEN [a1 EXCEPT !.sgr_params = RemoveAt(@, bi), !.has_bold = FALSE]
                       ELSE a1
             IN  add(update_colors(a2, up, up), up, up)
        ELSE add(update_colors(acc, x, x), x, x)

RECURSIVE InitLoop(_, _, _)
InitLoop(xs, acc, ansi_type) ==
    IF xs = <<>> \/ acc.exc # "" THEN acc
    ELSE InitLoop(Tail(xs), InitStep(acc, xs[1], ansi_type), ansi_type)

\* SgrSequence.__init__ once _iter_sgr(__iter) is known (r: its entries or its
\* exception); ansi_type is "None" or a format: [s, exc]
sgr_init(r, ansi_type) ==
    LET acc0 == [sgr_params |-> <<>>, rgb_dict |-> <<>>, has_bright_colors |-> FALSE,
                 values |-> {}, color_dict |-> [k \in {"fg", "bg"} |-> NoneItem],
                 is_bold |-> FALSE, has_bold |-> FALSE, exc |-> ""]
        body(acc, n) ==
                IF acc.sgr_params[n].value = <<ZERO>>
                THEN [sgr_params |-> <<acc.sgr_params[n]>>, rgb_dict |-> <<>>,
                      has_bright_colors |-> FALSE, bytes |-> None]
                ELSE [sgr_params |-> acc.sgr_params, rgb_dict |-> acc.rgb_dict,
                      has_bright_colors |-> acc.has_bright_colors, bytes |-> None]
    IN  IF r.exc # "" THEN [s |-> EmptySgr, exc |-> r.exc]
        ELSE Bind(InitLoop(r.out, acc0, ansi_type), LAMBDA acc :
            IF acc.exc # "" THEN [s |-> EmptySgr, exc |-> acc.exc]
            ELSE IF Len(acc.sgr_params) = 0 THEN [s |-> EmptySgr, exc |-> "IndexError"]
            ELSE Bind(body(acc, Len(acc.sgr_params)), LAMBDA b :
                     [s |-> [b EXCEPT !.bytes = Encode(Values(b))], exc |-> ""]))

\* SgrSequence(b, ansi_type=t) for a bytes literal b
SgrFromBytes(b, ansi_type) ==
    IF b = <<>> THEN [s |-> EmptySgr, exc |-> ""] ELSE sgr_init(iter_sgr_bytes(b), ansi_type)

\* SgrSequence(items) for a list of ints and colorbytes
SgrFromList(items, ansi_type) ==
    IF items = <<>> THEN [s |-> EmptySgr, exc |-> ""]
    ELSE sgr_init(iter_sgr_list(items), ansi_type)

\* SgrSequence.__add__(a, b) == SgrSequence([*a, *b])
sgr_add(a, b) ==
    IF a.sgr_params \o b.sgr_params = <<>> THEN [s |-> EmptySgr, exc |-> ""]
    ELSE sgr_init(iter_sgr_wrappers(a.sgr_params \o b.sgr_params), "None")

\* no ColorStr is held: the state of the ColorStr variables where only
\* SgrSequence and colorbytes are used
NoColorStrs ==
    /\ heap = <<>>
    /\ cs = <<>>
    /\ DEFAULT_ANSI = "8b"

-----------------------------------------------------------------------------
(* The calls a program makes on one SgrSequence.  A call leaves its record  *)
(* in last; the caller reads the outcome and goes on (Proceed).             *)

\* what a constructor or + is given: SGR codes, a colour being one group
Groups == { <<0>>, <<1>>, <<3>>, <<31>>, <<91>>, <<41>>, <<38, 5, 9>> }

RECURSIVE GroupLists(_)
\* the lists of at most n groups
GroupLists(n) ==
    IF n = 0 THEN { <<>> }
    ELSE GroupLists(n - 1)
         \cup { Append(l, g) : l \in {m \in GroupLists(n - 1) : Len(m) = n - 1}, g \in Groups }

RECURSIVE Flatten(_)
Flatten(l) == IF l = <<>> THEN <<>> ELSE l[1] \o Flatten(Tail(l))

\* the codes as a list of ints
IntList(l) == Bind(Flatten(l), LAMBDA f : [i \in 1..Len(f) |-> IntItem(f[i])])

\* the codes as the literal ESC [ n ; ... m
Literal(l) ==
    IF l = <<>> THEN <<>>
    ELSE Bind(Flatten(l), LAMBDA f : Encode([i \in 1..Len(f) |-> IntToBytes(f[i])]))

\* the codes append and remove are called with; 27 is no SGR parameter
CallCodes == {0, 1, 3, 27, 31, 91, 41}

NoCall ==
    [op |-> "", arg |-> 0, items |-> <<>>, pre |-> EmptySgr, other |-> EmptySgr, exc |-> ""]

Ready == last.op = ""

\* SgrSequence(items): a constructor that raises leaves the caller with the old object
SgrNewList(l) ==
    \E r \in {SgrFromList(IntList(l), "None")} :
        /\ seq' = IF r.exc = "" THEN r.s ELSE seq
        /\ last' = [NoCall EXCEPT !.op = "new_list", !.items = l, !.exc = r.exc]

\* SgrSequence(b'\x1b[...m')
SgrNewLiteral(l) ==
    \E r \in {SgrFromBytes(Literal(l), "None")} :
        /\ seq' = IF r.exc = "" THEN r.s ELSE seq
        /\ last' = [NoCall EXCEPT !.op = "new_literal", !.items = l, !.exc = r.exc]

\* seq.append(v)
SgrAppend(v) ==
    \E r \in {append(seq, v)} :
        /\ seq' = r.s
        /\ last' = [NoCall EXCEPT !.op = "append", !.arg = v, !.pre = seq, !.exc = r.exc]

\* seq.pop(i), i from 1 here; seq.pop() is the call with the last position
SgrPop(i) ==
    \E r \in {pop(seq, i)} :
        /\ seq' = r.s
        /\ last' = [NoCall EXCEPT !.op = "pop", !.arg = i, !.pre = seq, !.exc = r.exc]

\* seq.remove(v)
SgrRemove(v) ==
    \E r \in {remove(seq, v)} :
        /\ seq' = r.s
        /\ last' = [NoCall EXCEPT !.op = "remove", !.arg = v, !.pre = seq, !.exc = r.exc]

\* seq = seq + SgrSequence(items)
SgrAdd(l) ==
    \E b \in {SgrFromList(IntList(l), "None")} :
        /\ b.exc = ""
        /\ \E r \in {sgr_add(seq, b.s)} :
               /\ seq' = IF r.exc = "" THEN r.s ELSE seq
               /\ last' = [NoCall EXCEPT !.op = "add", !.items = l, !.pre = seq,
                                         !.other = b.s, !.exc = r.exc]

\* the caller goes on after a call
Proceed ==
    /\ ~Ready
    /\ last' = NoCall
    /\ steps' = steps + 1
    /\ UNCHANGED <<seq, hist, cval, heap, cs, DEFAULT_ANSI>>

InitSgr ==
    /\ seq = EmptySgr
    /\ NoColorStrs
    /\ last = NoCall
    /\ steps = 0
    /\ hist = <<>>
    /\ cval = 0

\* the sequence is constructed first, then called
NextSgr ==
    \/ /\ Ready
       /\ steps = 0
       /\ UNCHANGED <<steps, hist, cval, heap, cs, DEFAULT_ANSI>>
       /\ \/ \E l \in GroupLists(MaxInitLen) : SgrNewList(l)
          \/ \E l \in GroupLists(MaxInitLen) : SgrNewLiteral(l)
    \/ /\ Ready
       /\ steps \in 1..MaxSteps
       /\ UNCHANGED <<steps, hist, cval, heap, cs, DEFAULT_ANSI>>
       /\ \/ \E v \in CallCodes : SgrAppend(v)
          \/ \E i \in 1..(Len(seq.sgr_params) + 1) : SgrPop(i)
          \/ \E v \in CallCodes : SgrRemove(v)
          \/ \E l \in GroupLists(MaxAddLen) : SgrAdd(l)
    \/ Proceed

SpecSgr == InitSgr /\ [][NextSgr]_vars

-----------------------------------------------------------------------------
(* Properties of one SgrSequence, stated over SpecSgr.                      *)

\* the colour entries of s that fill slot k ("fg" or "bg")
SlotEntries(s, k) ==
    SelectSeq(s.sgr_params, LAMBDA p : IsColor(p) /\ DictHas(p.rgb_dict, k))

\* the entries of s that are no colour of slot k and no bold
KeptEntries(s, k) ==
    SelectSeq(s.sgr_params,
              LAMBDA p : ~(IsColor(p) /\ DictHas(p.rgb_dict, k)) /\ p.value # BOLD)

HasReset(s) == \E i \in 1..Len(s.sgr_params) : s.sgr_params[i].value = <<ZERO>>

\* the entries of s are codes append accepts: no 8-bit or 24-bit colour
Appendable(s) ==
    \A i \in 1..Len(s.sgr_params) : BytesToInt(s.sgr_params[i].value) \in SGR_PARAM_VALUES

RECURSIVE AppendAll(_, _)
\* the codes appended to s one at a time, in order, until one raises
AppendAll(s, codes) ==
    IF codes = <<>> THEN [s |-> s, exc |-> ""]
    ELSE LET r == append(s, codes[1])
         IN  IF r.exc # "" THEN r ELSE AppendAll(r.s, Tail(codes))

\* same entries in the same order, same rgb_dict, same has_bright_colors
SameSequence(s, t) ==
    /\ Values(s) = Values(t)
    /\ DictEq(s.rgb_dict, t.rgb_dict)
    /\ s.has_bright_colors = t.has_bright_colors

\* C5: reset absorption.  A reset-all code 0 in the sequence is its only entry;
\* append(0) leaves just [0]; appending another code while 0 is present leaves
\* just the new code; after append as after construction from a list or literal.
C5_ResetAbsorption ==
    /\ HasReset(seq) => Len(seq.sgr_params) = 1
    /\ (last.op = "append" /\ last.arg = 0) =>
            (last.exc = "" /\ Values(seq) = << <<ZERO>> >>)
    /\ (last.op = "append" /\ last.arg # 0 /\ last.arg \in SGR_PARAM_VALUES
            /\ HasReset(last.pre)) =>
            (last.exc = "" /\ Len(seq.sgr_params) = 1 /\ ~HasReset(seq))

\* C6: idempotent reset.  After append(0) the sequence is the single entry [0],
\* encoded ESC[0m, and a second append(0) leaves the same sequence.
C6_IdempotentReset ==
    (last.op = "append" /\ last.arg = 0) =>
        LET twice == append(seq, 0)
        IN  /\ last.exc = ""
            /\ twice.exc = ""
            /\ Values(seq) = << <<ZERO>> >>
            /\ Values(twice.s) = Values(seq)
            /\ SgrBytes(twice.s) = SGR_RESET

\* C8: slot replacement by append.  append(c) of a 4-bit colour c whose slot is
\* occupied succeeds; afterwards the slot holds exactly one entry, c or its
\* bright promotion, and the entries of the other slot and the non-colour
\* entries other than a folded bold are kept.
C8_SlotReplacement ==
    (last.op = "append" /\ last.arg \in ANSI16C
        /\ SlotEntries(last.pre, ANSI16C_I2KV(last.arg)[1]) # <<>>) =>
        LET k == ANSI16C_I2KV(last.arg)[1]
        IN  /\ last.exc = ""
            /\ Len(SlotEntries(seq, k)) = 1
            /\ SlotEntries(seq, k)[1].value
                    \in {IntToBytes(last.arg), IntToBytes(last.arg + 60)}
            /\ KeptEntries(seq, k) = KeptEntries(last.pre, k)

\* C9: merge equals sequential append.  a + b has the entries, the rgb_dict and
\* the has_bright_colors flag of a copy of a to which the entries of b are
\* appended one at a time, and SgrSequence(list of codes) those of an empty
\* sequence to which the codes are appended in order.
C9_MergeEqualsAppend ==
    /\ (last.op = "add" /\ Appendable(last.other)) =>
            LET r == AppendAll(last.pre,
                               [i \in 1..Len(last.other.sgr_params) |->
                                    BytesToInt(last.other.sgr_params[i].value)])
            IN  last.exc = "" /\ r.exc = "" /\ SameSequence(seq, r.s)
    /\ (last.op = "new_list" /\ \A i \in 1..Len(last.items) : Len(last.items[i]) = 1) =>
            LET r == AppendAll(EmptySgr, Flatten(last.items))
            IN  last.exc = "" /\ r.exc = "" /\ SameSequence(seq, r.s)

-----------------------------------------------------------------------------
(* Bold and a standard 4-bit colour: a script of calls on one sequence for  *)
(* one colour cval.  hist is the script so far; a call that raises ends it. *)

\* seq.append(1)
BrightAppendBold ==
    \E r \in {append(seq, 1)} :
        /\ seq' = r.s
        /\ hist' = Append(hist, "bold")
        /\ last' = [NoCall EXCEPT !.op = "append", !.arg = 1, !.exc = r.exc]

\* seq.append(cval)
BrightAppendColor ==
    \E r \in {append(seq, cval)} :
        /\ seq' = r.s
        /\ hist' = Append(hist, "color")
        /\ last' = [NoCall EXCEPT !.op = "append", !.arg = cval, !.exc = r.exc]

\* seq.remove(cval + 60): the promoted colour is taken out
BrightRemove ==
    \E r \in {remove(seq, cval + 60)} :
        /\ seq' = r.s
        /\ hist' = Append(hist, "remove")
        /\ last' = [NoCall EXCEPT !.op = "remove", !.arg = cval + 60, !.exc = r.exc]

\* seq = SgrSequence(b'\x1b[1;<cval>m')
BrightLiteralBold ==
    \E r \in {SgrFromBytes(Literal(<< <<1>>, <<cval>> >>), "None")} :
        /\ seq' = r.s
        /\ hist' = <<"literal_bold">>
        /\ last' = [NoCall EXCEPT !.op = "new_literal", !.exc = r.exc]

\* seq = SgrSequence(b'\x1b[<cval + 60>m')
BrightLiteralBright ==
    \E r \in {SgrFromBytes(Literal(<< <<cval + 60>> >>), "None")} :
        /\ seq' = r.s
        /\ hist' = <<"literal_bright">>
        /\ last' = [NoCall EXCEPT !.op = "new_literal", !.exc = r.exc]

InitBright ==
    /\ cval \in ANSI16C_STD
    /\ NoColorStrs
    /\ seq = EmptySgr
    /\ last = NoCall
    /\ steps = 0
    /\ hist = <<>>

NextBright ==
    \/ /\ hist = <<>>
       /\ UNCHANGED <<steps, cval, heap, cs, DEFAULT_ANSI>>
       /\ \/ BrightLiteralBold
          \/ BrightLiteralBright
    \/ /\ Len(hist) < MaxScript
       /\ last.exc = ""
       /\ UNCHANGED <<steps, cval, heap, cs, DEFAULT_ANSI>>
       /\ \/ BrightAppendBold
          \/ BrightAppendColor
          \/ BrightRemove

SpecBright == InitBright /\ [][NextBright]_vars

\* the encoding ESC[<cval + 60>m of the bright variant of cval
BrightEncoding == Encode(<< IntToBytes(cval + 60) >>)

HasBold(s) == \E i \in 1..Len(s.sgr_params) : s.sgr_params[i].value = BOLD

\* C7: bright promotion and demotion.  For every standard 4-bit colour c,
\* append(1) then append(c) on an empty sequence encodes to exactly the bright
\* code c + 60, with no bold entry and has_bright_colors true; removing that
\* colour and appending 1 then c again gives the identical encoding; and the
\* literal ESC[1;c m is encoded as the literal ESC[(c+60)m is.
C7_BrightPromotion ==
    /\ hist \in {<<"bold", "color">>, <<"bold", "color", "remove", "bold", "color">>} =>
            /\ last.exc = ""
            /\ SgrBytes(seq) = BrightEncoding
            /\ Values(seq) = << IntToBytes(cval + 60) >>
            /\ ~HasBold(seq)
            /\ seq.has_bright_colors
    /\ hist = <<"bold", "color", "remove">> => (last.exc = "" /\ SgrBytes(seq) = <<>>)
    /\ hist \in {<<"literal_bold">>, <<"literal_bright">>} =>
            (last.exc = "" /\ SgrBytes(seq) = BrightEncoding)

\* C7 witness: the colour was promoted, removed and promoted again
C7_Witness ==
    /\ hist = <<"bold", "color", "remove", "bold", "color">>
    /\ last.exc = ""
    /\ cval = 47
    /\ SgrBytes(seq) = <<ESC, LBRACKET, ZERO + 1, ZERO, ZERO + 7, LOWER_M>>

-----------------------------------------------------------------------------
(* One colour code, encoded and parsed again: cval is the code, as          *)
(* <<format, slot, payload>>.                                               *)

\* the channel values the 24-bit codes are drawn from
ChannelSamples == {0, 85, 255}

\* the colour codes of the three formats
ColorCodes ==
    {<<"4b", ANSI16C_I2KV(c)[1], c>> : c \in ANSI16C}
    \cup {<<"8b", k, n>> : k \in {"fg", "bg"}, n \in 0..255}
    \cup {<<"24b", k, <<r, g, b>> >> :
            k \in {"fg", "bg"}, r \in ChannelSamples, g \in ChannelSamples, b \in ChannelSamples}

\* the payload bytes of a colour code: c, 38;5;n or 38;2;r;g;b (48 for "bg")
PayloadBytes(c) ==
    IF c[1] = "4b" THEN IntToBytes(c[3])
    ELSE IF c[1] = "8b"
    THEN JoinB(<<IntToBytes(ANSI256_KEY2I(c[2])), IntToBytes(5), IntToBytes(c[3])>>, <<SEMI>>)
    ELSE JoinB(<<IntToBytes(ANSI256_KEY2I(c[2])), IntToBytes(2), IntToBytes(c[3][1]),
                 IntToBytes(c[3][2]), IntToBytes(c[3][3])>>, <<SEMI>>)

\* colorbytes(payload)
ColorParse ==
    \E r \in {colorbytes_new("colorbytes", PlainBytes(PayloadBytes(cval)))} :
        /\ last' = [NoCall EXCEPT !.op = "colorbytes", !.items = <<r.val>>, !.exc = r.exc]
        /\ UNCHANGED <<seq, steps, hist, cval, heap, cs, DEFAULT_ANSI>>

\* SgrSequence(b'\x1b[' + payload + b'm')
ColorParseSgr ==
    \E r \in {SgrFromBytes(Encode(<<PayloadBytes(cval)>>), "None")} :
        /\ seq' = r.s
        /\ last' = [NoCall EXCEPT !.op = "new_literal", !.exc = r.exc]
        /\ UNCHANGED <<steps, hist, cval, heap, cs, DEFAULT_ANSI>>

\* t.from_rgb({slot: rgb}) for the slot and the rgb of a 24-bit code
ColorBuild(t) ==
    /\ cval[1] = "24b"
    /\ \E v \in {from_rgb(t, cval[2], cval[3])} :
           last' = [NoCall EXCEPT !.op = "from_rgb", !.items = <<v>>]
    /\ UNCHANGED <<seq, steps, hist, cval, heap, cs, DEFAULT_ANSI>>

\* t(value) for the colour value that was parsed or built: the conversion that
\* ColorStr.as_ansi_type makes of an entry
ColorConvert(t) ==
    /\ last.op \in {"colorbytes", "from_rgb"}
    /\ last.exc = ""
    /\ \E r \in {colorbytes_new(t, last.items[1])} :
           last' = [NoCall EXCEPT !.op = "convert", !.arg = t, !.items = <<r.val>>,
                                    !.exc = r.exc]
    /\ UNCHANGED <<seq, steps, hist, cval, heap, cs, DEFAULT_ANSI>>

InitColor ==
    /\ cval \in ColorCodes
    /\ NoColorStrs
    /\ seq = EmptySgr
    /\ last = NoCall
    /\ steps = 0
    /\ hist = <<>>

NextColor ==
    \/ Ready /\ ColorParse
    \/ Ready /\ ColorParseSgr
    \/ Ready /\ \E t \in AnsiTypes : ColorBuild(t)
    \/ \E t \in AnsiTypes : ColorConvert(t)

SpecColor == InitColor /\ [][NextColor]_vars

\* the parsed value v is the code c: same slot, same format, same payload bytes
SameCode(v, c) ==
    /\ v.cls = c[1]
    /\ DictKeys(v.rgb_dict) = {c[2]}
    /\ v.value = PayloadBytes(c)

\* C4: round trip of colour codes.  For every colour code of the three formats,
\* parsing its encoded bytes, through colorbytes(...) and through SgrSequence,
\* gives a code with the same slot, the same format and the same payload bytes.
C4_ColorRoundTrip ==
    /\ last.op = "colorbytes" => (last.exc = "" /\ SameCode(last.items[1], cval))
    /\ last.op = "new_literal" =>
            (last.exc = "" /\ Len(seq.sgr_params) = 1 /\ SameCode(seq.sgr_params[1], cval))

-----------------------------------------------------------------------------
(* ColorStr: a str that carries _sgr_ (a reference to an SgrSequence        *)
(* object, here a position of heap), _base_str_, _no_reset_ and            *)
(* _ansi_type_.  A Color is the int of its packed channels.                *)

\* Color.from_rgb(rgb)
ColorFromRgb(rgb) == rgb2hex(rgb)

\* Color.rgb
ColorRgb(c) == hex2rgb(c)

\* Color.__invert__: 0xFFFFFF ^ self
ColorInvert(c) ==
    LET rgb == hex2rgb(c) IN rgb2hex(<<255 - rgb[1], 255 - rgb[2], 255 - rgb[3]>>)

\* rgb_diff(a, b): the absolute difference of each channel
rgb_diff(a, b) == <<Abs(a[1] - b[1]), Abs(a[2] - b[2]), Abs(a[3] - b[3])>>

\* a new SgrSequence object: [heap, id]
Alloc(h, s) == [heap |-> Append(h, s), id |-> Len(h) + 1]

\* the object is used where a copy is meant
SgrAlias(h, id) == [heap |-> h, id |-> id]

\* SgrSequence(sgr) for an SgrSequence sgr: the attributes of sgr.__copy__()
SgrCopy(h, id) == Alloc(h, h[id])

\* str(sgr): the cache of the object is filled: [heap, str]
sgr_str(h, id) == [heap |-> [h EXCEPT ![id] = Cached(@)], str |-> SgrBytes(h[id])]

\* the suffix of the str of a ColorStr
Suffix(no_reset) == IF no_reset THEN <<>> ELSE SGR_RESET

ColorStrOf(str, base_str, sgr, no_reset, ansi_type) ==
    [str |-> str, base_str |-> base_str, sgr |-> sgr, no_reset |-> no_reset,
     ansi_type |-> ansi_type]

\* the result of an operation that returns the ColorStr v
Returns(h, v) == [heap |-> h, exc |-> "", val |-> v]

\* the result of an operation on self that raises e
Raises(h, self, e) == [heap |-> h, exc |-> e, val |-> self]

\* the str of self is kept where it has to be built again
weak_var_update_keeps_str(h, self, sgr, base_str, no_reset) ==
    Returns(h, ColorStrOf(self.str, base_str, sgr, no_reset, self.ansi_type))

\* ColorStr._weak_var_update(**kwargs): sgr, base_str and no_reset are the
\* values of kwargs, or those of self for the keys kwargs does not have
weak_var_update(h, self, sgr, base_str, no_reset) ==
    Bind(sgr_str(h, sgr), LAMBDA st :
        Returns(st.heap,
                ColorStrOf(st.str \o base_str \o Suffix(no_reset), base_str, sgr, no_reset,
                           self.ansi_type)))

\* ColorStr._color_dict_: {k: Color.from_rgb(v)} in the order of rgb_dict
color_dict(s) == [i \in 1..Len(s.rgb_dict) |-> <<s.rgb_dict[i][1], ColorFromRgb(s.rgb_dict[i][2])>>]

\* the value None of a colour in a dict of colours
NoColor == -1

RECURSIVE rgb_dict_set(_, _, _)
\* the setter of SgrSequence.rgb_dict, given (ansi_type, colors), colors being
\* the items <<key, Color or None>> of the dict: [s, exc]
rgb_dict_set(s, ansi_type, colors) ==
    IF colors = <<>> THEN [s |-> s, exc |-> ""]
    ELSE LET k == colors[1][1]
             v == colors[1][2]
             \* the entry of the slot k is popped when the slot is filled
             popped ==
                 IF ~DictHas(s.rgb_dict, k) THEN [s |-> s, exc |-> ""]
                 ELSE Bind(index_wrapper(s, get_color(s, k)), LAMBDA idx :
                     IF idx = 0 THEN [s |-> s, exc |-> "ValueError"]
                     ELSE Bind(pop(s, idx), LAMBDA q : [s |-> q.s, exc |-> q.exc]))
         IN  IF v = NoColor
             THEN rgb_dict_set([s EXCEPT !.bytes = None], ansi_type, Tail(colors))
             ELSE Bind(popped, LAMBDA r :
                 IF r.exc # "" THEN [s |-> r.s, exc |-> r.exc]
                 ELSE Bind(from_rgb(ansi_type, k, hex2rgb(v)), LAMBDA color_bytes :
                     rgb_dict_set([r.s EXCEPT !.rgb_dict = DictUpdate(@, color_bytes.rgb_dict),
                                              !.sgr_params = Append(@, color_bytes),
                                              !.bytes = None],
                                  ansi_type, Tail(colors))))

\* the deleter of SgrSequence.rgb_dict: the first key is popped, and the loop
\* over the keys of the dict that changed raises RuntimeError: [s, exc]
rgb_dict_del(s) ==
    IF s.rgb_dict = <<>> THEN [s |-> s, exc |-> ""]
    ELSE Bind(index_wrapper(s, get_color(s, s.rgb_dict[1][1])), LAMBDA idx :
        IF idx = 0 THEN [s |-> s, exc |-> "ValueError"]
        ELSE Bind(pop(s, idx), LAMBDA r :
            IF r.exc # "" THEN [s |-> r.s, exc |-> r.exc]
            ELSE [s |-> [r.s EXCEPT !.bytes = None], exc |-> "RuntimeError"]))

\* max(formats, key=formats.count): the first of the most frequent classes
MostCommon(formats) ==
    LET count(x) == Cardinality({i \in 1..Len(formats) : formats[i] = x})
        i == CHOOSE i \in 1..Len(formats) :
                /\ \A j \in 1..Len(formats) : count(formats[j]) <= count(formats[i])
                /\ \A j \in 1..(i - 1) : count(formats[j]) < count(formats[i])
    IN  formats[i]

\* the classes of the colour entries of s
ColorFormats(s) ==
    LET c == SelectSeq(s.sgr_params, IsColor) IN [i \in 1..Len(c) |-> c[i].cls]

RECURSIVE ConvertParams(_, _)
\* the loop of as_ansi_type over the entries: [params, rgb, exc], rgb being the
\* rgb_dict of the converted entries only
ConvertParams(params, ansi_type) ==
    IF params = <<>> THEN [params |-> <<>>, rgb |-> <<>>, exc |-> ""]
    ELSE LET p == params[1]
         IN  IF IsColor(p) /\ p.cls # ansi_type
             THEN Bind(colorbytes_new(ansi_type, p), LAMBDA new_ansi :
                 IF new_ansi.exc # "" THEN [params |-> <<>>, rgb |-> <<>>, exc |-> new_ansi.exc]
                 ELSE Bind(ConvertParams(Tail(params), ansi_type), LAMBDA rest :
                     IF rest.exc # "" THEN rest
                     ELSE [params |-> <<new_ansi.val>> \o rest.params,
                           rgb |-> DictUpdate(new_ansi.val.rgb_dict, rest.rgb),
                           exc |-> ""]))
             ELSE Bind(ConvertParams(Tail(params), ansi_type), LAMBDA rest :
                 IF rest.exc # "" THEN rest
                 ELSE [rest EXCEPT !.params = <<p>> \o @])

\* ColorStr.as_ansi_type(ansi_type)
as_ansi_type(h, self, ansi_type) ==
    LET s == h[self.sgr]
    IN  IF ~SeqIsColor(s) THEN Returns(h, self)
        ELSE Bind(ConvertParams(s.sgr_params, ansi_type), LAMBDA c :
            IF c.exc # "" THEN Raises(h, self, c.exc)
            ELSE IF [i \in 1..Len(c.params) |-> c.params[i].value] = Values(s)
            THEN Returns(h, self)
            ELSE Bind(Alloc(h, [EmptySgr EXCEPT !.sgr_params = c.params, !.rgb_dict = c.rgb]),
                      LAMBDA a :
                 Bind(sgr_str(a.heap, a.id), LAMBDA st :
                     Returns(st.heap,
                             ColorStrOf(st.str \o self.base_str \o Suffix(self.no_reset),
                                        self.base_str, a.id, self.no_reset, ansi_type)))))

\* no ColorStr: the argument __value of recolor that is not given
NoValue == ColorStrOf(<<>>, <<>>, 0, TRUE, "None")

\* ColorStr.recolor(value, absolute, **kwargs): value is a ColorStr or NoValue,
\* kwargs the items <<key, Color>>
recolor(h, self, value, absolute, kwargs) ==
    LET kw == IF value.str # <<>> THEN color_dict(h[value.sgr]) ELSE kwargs
    IN  IF value.str = <<>> /\ kwargs = <<>> THEN Returns(h, self)
        ELSE Bind(SgrCopy(h, self.sgr), LAMBDA c :
             Bind(IF absolute THEN rgb_dict_del(c.heap[c.id])
                  ELSE [s |-> c.heap[c.id], exc |-> ""], LAMBDA d :
                 IF d.exc # "" THEN Raises([c.heap EXCEPT ![c.id] = d.s], self, d.exc)
                 ELSE Bind(rgb_dict_set(d.s, self.ansi_type, kw), LAMBDA r :
                     IF r.exc # "" THEN Raises([c.heap EXCEPT ![c.id] = r.s], self, r.exc)
                     ELSE weak_var_update([c.heap EXCEPT ![c.id] = r.s], self, c.id,
                                          self.base_str, self.no_reset))))

\* ColorStr.__invert__
invert(h, self) ==
    Bind(color_dict(h[self.sgr]), LAMBDA cd :
    Bind(SgrCopy(h, self.sgr), LAMBDA c :
    Bind(rgb_dict_set(c.heap[c.id], self.ansi_type,
                      [i \in 1..Len(cd) |-> <<cd[i][1], ColorInvert(cd[i][2])>>]), LAMBDA r :
        IF r.exc # "" THEN Raises([c.heap EXCEPT ![c.id] = r.s], self, r.exc)
        ELSE weak_var_update([c.heap EXCEPT ![c.id] = r.s], self, c.id, self.base_str,
                             self.no_reset))))

\* SgrSequence.__contains__(x) for an int x
sgr_contains(s, x) ==
    /\ s.sgr_params # <<>>
    /\ \E r \in {iter_sgr_int(x)} :
           /\ r.exc = ""
           /\ \A i \in 1..Len(r.out) : \E j \in 1..Len(s.sgr_params) :
                    s.sgr_params[j].value = r.out[i].value

RECURSIVE BrightLoop(_, _)
\* the loop of update_sgr for x == 1 on a sequence with bright colours, from
\* entry i on (the list is changed while it is iterated): [s, exc]
BrightLoop(s, i) ==
    IF i > Len(s.sgr_params) THEN [s |-> s, exc |-> ""]
    ELSE LET px == s.sgr_params[i]
             n  == BytesToInt(px.value)
         IN  IF px.cls # "4b" THEN BrightLoop(s, i + 1)
             ELSE Bind(pop(s, i), LAMBDA r :
                 IF r.exc # "" THEN [s |-> r.s, exc |-> r.exc]
                 ELSE IF n = -1 THEN [s |-> r.s, exc |-> "ValueError"]
                 ELSE Bind(append(r.s, n - 60), LAMBDA a :
                     IF a.exc # "" THEN a
                     ELSE BrightLoop(a.s, i + 1)))

RECURSIVE UpdateLoop(_, _)
\* the loop of update_sgr over p: [s, exc]
UpdateLoop(s, p) ==
    IF p = <<>> THEN [s |-> s, exc |-> ""]
    ELSE LET x == p[1]
         IN  Bind(IF sgr_contains(s, x)
                  THEN Bind(remove(s, x), LAMBDA q : [s |-> q.s, exc |-> q.exc])
                  ELSE IF x = 1 /\ s.has_bright_colors THEN BrightLoop(s, 1)
                  ELSE append(s, x), LAMBDA r :
                 IF r.exc # "" THEN r ELSE UpdateLoop(r.s, Tail(p)))

\* an argument of update_sgr that is not an int, such as a str
NotAnInt == -2

\* ColorStr.update_sgr(*p)
update_sgr(h, self, p) ==
    IF p = <<>> THEN Returns(h, self)
    ELSE IF \E i \in 1..Len(p) : p[i] = NotAnInt \/ p[i] \in {38, 48}
    THEN Raises(h, self, "ValueError")
    ELSE Bind(SgrCopy(h, self.sgr), LAMBDA c :
         Bind(UpdateLoop(c.heap[c.id], p), LAMBDA r :
         Bind([c.heap EXCEPT ![c.id] = r.s], LAMBDA h2 :
             IF r.exc # "" THEN Raises(h2, self, r.exc)
             ELSE Bind(sgr_str(h2, c.id), LAMBDA st :
                 Returns(st.heap,
                         ColorStrOf(st.str \o self.base_str \o Suffix(self.no_reset),
                                    self.base_str, c.id, self.no_reset,
                                    IF SeqIsColor(r.s) THEN MostCommon(ColorFormats(r.s))
                                    ELSE self.ansi_type))))))

\* ColorStr.__add__(other) for a ColorStr other
cs_add(h, self, other) ==
    Bind(sgr_add(h[self.sgr], h[other.sgr]), LAMBDA r :
        IF r.exc # "" THEN Raises(h, self, r.exc)
        ELSE Bind(Alloc(h, r.s), LAMBDA a :
            weak_var_update(a.heap, self, a.id, self.base_str \o other.base_str,
                            self.no_reset)))

\* ColorStr.__add__(other) for a str other
cs_add_str(h, self, other) ==
    weak_var_update(h, self, self.sgr, self.base_str \o other, self.no_reset)

\* ColorStr.__matmul__(other)
cs_matmul(h, self, other) ==
    weak_var_update(h, self, other.sgr, self.base_str, other.no_reset)

\* b[i:j] for 0 <= i and 0 <= j
Slice(b, i, j) ==
    LET n == IF j < Len(b) THEN j ELSE Len(b)
    IN  IF i >= n THEN <<>> ELSE SubSeq(b, i + 1, n)

\* the slice is made a ColorStr of its own, without the style of self
cs_getitem_unstyled(h, self, i, j) ==
    Bind(Alloc(h, EmptySgr), LAMBDA a :
        weak_var_update(a.heap, self, a.id, Slice(self.base_str, i, j), self.no_reset))

\* ColorStr.__getitem__(slice(i, j))
cs_getitem(h, self, i, j) ==
    weak_var_update(h, self, self.sgr, Slice(self.base_str, i, j), self.no_reset)

\* ColorStr.rgb_dict: {k: Color.rgb} of _color_dict_
cs_rgb_dict(s) ==
    LET cd == color_dict(s) IN [i \in 1..Len(cd) |-> <<cd[i][1], ColorRgb(cd[i][2])>>]

\* ColorStr.__sub__(other) for a ColorStr other; keys is the order in which the
\* set self.rgb_dict.keys() & other.rgb_dict is iterated
cs_sub(h, self, other, keys) ==
    IF keys = <<>> THEN Returns(h, self)
    ELSE Bind(<<cs_rgb_dict(h[self.sgr]), cs_rgb_dict(h[other.sgr])>>, LAMBDA ab :
         Bind([i \in 1..Len(keys) |->
                  <<keys[i], ColorFromRgb(rgb_diff(DictGet(ab[1], keys[i]),
                                                    DictGet(ab[2], keys[i])))>>],
              LAMBDA diff_dict :
         Bind(SgrCopy(h, self.sgr), LAMBDA c :
         Bind(rgb_dict_set(c.heap[c.id], self.ansi_type, diff_dict), LAMBDA r :
             IF r.exc # "" THEN Raises([c.heap EXCEPT ![c.id] = r.s], self, r.exc)
             ELSE weak_var_update([c.heap EXCEPT ![c.id] = r.s], self, c.id, self.base_str,
                                  self.no_reset)))))

-----------------------------------------------------------------------------
(* The constructor of ColorStr.  A color_spec is [t, k, v]: t is "none",    *)
(* "int" (an int or Color v), "rgb" (a triple v), "dict" (v the items       *)
(* <<key, spec>>), "kv" (the pair (k, v)), "pair" (v two specs), "literal"  *)
(* (a str or bytes v) or "sgr" (an SgrSequence, v its position on heap).    *)

NoSpec == [t |-> "none", k |-> "", v |-> 0]

IntSpec(n) == [t |-> "int", k |-> "", v |-> n]

RgbSpec(rgb) == [t |-> "rgb", k |-> "", v |-> rgb]

DictSpec(items) == [t |-> "dict", k |-> "", v |-> items]

KvSpec(key, spec) == [t |-> "kv", k |-> key, v |-> spec]

PairSpec(a, b) == [t |-> "pair", k |-> "", v |-> <<a, b>>]

LiteralSpec(b) == [t |-> "literal", k |-> "", v |-> b]

SgrSpec(id) == [t |-> "sgr", k |-> "", v |-> id]

\* list.remove(key) where the key is in the list
ListRemove(l, key) ==
    LET i == CHOOSE i \in 1..Len(l) : l[i] = key /\ \A j \in 1..(i - 1) : l[j] # key
    IN  RemoveAt(l, i)

\* the body of the loop of _solve_color_spec for one (k, v) of resolve
SolveStep(st, k, v) ==
    LET n    == Len(st.keys)
        k2   == st.keys[n]
        old  == DictGet(st.out, k)
        out1 == DictSet(DictDel(st.out, k), k2, old)
    IN  IF ~DictHas(st.out, k) THEN [st EXCEPT !.out = DictSet(@, k, v)]
        ELSE IF Len(st.out) > 1 /\ old # v THEN [st EXCEPT !.exc = "ValueError"]
        ELSE IF n = 0 THEN [st EXCEPT !.exc = "ValueError"]
        ELSE [st EXCEPT !.out = DictSet(out1, k, v),
                        !.keys = Append(SubSeq(st.keys, 1, n - 1), k)]

\* yield (key or keys.pop(), rgb), and the body of the loop for it
YieldColor(st, key, rgb) ==
    LET n == Len(st.keys)
    IN  IF key # "" THEN SolveStep(st, key, rgb)
        ELSE IF n = 0 THEN [st EXCEPT !.exc = "ValueError"]
        ELSE SolveStep([st EXCEPT !.keys = SubSeq(@, 1, n - 1)], st.keys[n], rgb)

RECURSIVE Resolve(_, _, _)
\* resolve(value, key=key) of _solve_color_spec, run together with the loop
\* that takes what it yields; st is [keys, out, exc], and every exception
\* becomes the ValueError 'invalid color spec'
Resolve(st, value, key) ==
    LET st1 == IF key # "" /\ \E i \in 1..Len(st.keys) : st.keys[i] = key
               THEN [st EXCEPT !.keys = ListRemove(@, key)]
               ELSE st
    IN  IF st.exc # "" THEN st
        ELSE IF value.t = "int"
        THEN IF value.v \notin 0..16777215 THEN [st1 EXCEPT !.exc = "ValueError"]
             ELSE YieldColor(st1, key, ColorRgb(value.v))
        ELSE IF value.t = "rgb"
        THEN YieldColor(st1, key, <<value.v[1] % 256, value.v[2] % 256, value.v[3] % 256>>)
        ELSE IF value.t = "dict"
        THEN IF value.v = <<>> THEN [st1 EXCEPT !.exc = "ValueError"]
             ELSE IF Len(value.v) = 1 THEN Resolve(st1, value.v[1][2], value.v[1][1])
             ELSE Resolve(Resolve(st1, value.v[1][2], value.v[1][1]),
                          value.v[2][2], value.v[2][1])
        ELSE IF value.t = "kv" THEN Resolve(st1, value.v, value.k)
        ELSE IF value.t = "pair" THEN Resolve(Resolve(st1, value.v[1], ""), value.v[2], "")
        ELSE [st1 EXCEPT !.exc = "ValueError"]

\* _solve_color_spec(color_spec, ansi_type): [s, exc]
solve_color_spec(color_spec, ansi_type) ==
    Bind(Resolve([keys |-> <<"bg", "fg">>, out |-> <<>>, exc |-> ""], color_spec, ""),
         LAMBDA st :
        IF st.exc # "" THEN [s |-> EmptySgr, exc |-> st.exc]
        ELSE SgrFromList([i \in 1..Len(st.out) |->
                              from_rgb(ansi_type, st.out[i][1], st.out[i][2])], "None"))

\* int.from_bytes(b): the bytes as a big-endian number
RECURSIVE DigitsValue256(_)
DigitsValue256(b) ==
    IF b = <<>> THEN 0 ELSE DigitsValue256(SubSeq(b, 1, Len(b) - 1)) * 256 + b[Len(b)]

\* bytes.partition(b'm')
PartitionM(b) ==
    LET i == FindByte(b, LOWER_M)
    IN  IF i = -1 THEN <<b, <<>> >>
        ELSE <<SubSeq(b, 1, i), SubSeq(b, i + 2, Len(b))>>

\* _get_color_str_vars(base_str, color_spec, ansi_type): [heap, exc, sgr, base_str];
\* ansi_type is "None" or a format, D the value of DEFAULT_ANSI
get_color_str_vars(h, base_str, color_spec, ansi_type, D) ==
    LET at    == IF ansi_type = "None" THEN D ELSE ansi_type
        text  == IF base_str = None THEN <<>> ELSE base_str
        made(q, t) ==
            Bind(q, LAMBDA r :
                IF r.exc # "" THEN [heap |-> h, exc |-> r.exc, sgr |-> 0, base_str |-> t]
                ELSE Bind(Alloc(h, r.s), LAMBDA a :
                         [heap |-> a.heap, exc |-> "", sgr |-> a.id, base_str |-> t]))
        csi_count == CountSub(color_spec.v, CSI)
        parts == PartitionM(RemoveSuffix(RemovePrefix(color_spec.v, CSI), SGR_RESET))
    IN  IF color_spec.t = "none" THEN made([s |-> EmptySgr, exc |-> ""], text)
        ELSE IF color_spec.t = "sgr"
        THEN [heap |-> h, exc |-> "", sgr |-> color_spec.v, base_str |-> text]
        ELSE IF color_spec.t # "literal" THEN made(solve_color_spec(color_spec, at), text)
        ELSE IF csi_count > 1
        THEN IF CountSub(parts[1], CSI) > 1
             THEN [heap |-> h, exc |-> "ValueError", sgr |-> 0, base_str |-> text]
             ELSE made(SgrFromBytes(parts[1], at), parts[2])
        ELSE IF csi_count = 1 THEN made(SgrFromBytes(color_spec.v, at), text)
        ELSE made(solve_color_spec(IntSpec(DigitsValue256(color_spec.v)), at), text)

\* ColorStr(obj, color_spec, ansi_type=ansi_type, no_reset=no_reset) for a str
\* obj or None and a color_spec that is no ColorStr
cs_new(h, obj, color_spec, ansi_type, no_reset, D) ==
    LET is_literal == obj # None /\ color_spec.t = "none" /\ StartsWith(obj, CSI)
        spec == IF is_literal THEN LiteralSpec(obj) ELSE color_spec
        text == IF is_literal THEN None ELSE obj
        typ(s) == IF ansi_type # "None" THEN ansi_type
                  ELSE IF SeqIsColor(s) THEN MostCommon(ColorFormats(s))
                  ELSE D
    IN  IF text = None /\ spec.t = "none"
        THEN Bind(Alloc(h, EmptySgr), LAMBDA a :
                 Returns(a.heap,
                         ColorStrOf(Suffix(no_reset), <<>>, a.id, no_reset,
                                    IF ansi_type # "None" THEN ansi_type ELSE D)))
        ELSE Bind(get_color_str_vars(h, text, spec, ansi_type, D), LAMBDA v :
            IF v.exc # "" THEN Raises(h, NoValue, v.exc)
            ELSE Bind(sgr_str(v.heap, v.sgr), LAMBDA st :
                Returns(st.heap,
                        ColorStrOf(st.str \o v.base_str \o Suffix(no_reset), v.base_str,
                                   v.sgr, no_reset, typ(v.heap[v.sgr])))))

\* ColorStr(obj, color_spec, ansi_type=ansi_type) for a ColorStr color_spec
cs_new_from(h, color_spec, ansi_type) ==
    Bind(sgr_str(h, color_spec.sgr), LAMBDA st :
        IF ansi_type # "None" /\ st.str # <<>>
        THEN as_ansi_type(st.heap, color_spec, ansi_type)
        ELSE Returns(IF ansi_type # "None" THEN st.heap ELSE h, color_spec))

\* str.replace(old, new) for an old of one character
StrReplace(b, old, new) ==
    Flatten([i \in 1..Len(b) |-> IF b[i] = old THEN new ELSE <<b[i]>>])

\* ColorStr.replace(old, new)
cs_replace(h, self, old, new) ==
    weak_var_update(h, self, self.sgr, StrReplace(self.base_str, old, new), self.no_reset)

\* ColorStr.split(sep): the list of the results
cs_split(h, self, sep) ==
    Bind(SplitB(self.base_str, sep), LAMBDA parts :
        [i \in 1..Len(parts) |-> weak_var_update(h, self, self.sgr, parts[i], self.no_reset)])

\* ColorStr.__iter__: the list of what it yields
cs_iter(h, self) ==
    [i \in 1..Len(self.base_str) |->
        weak_var_update(h, self, self.sgr, <<self.base_str[i]>>, self.no_reset)]

\* ColorStr.__len__
cs_len(self) == Len(self.base_str)

-----------------------------------------------------------------------------
(* The calls a program makes on ColorStr values.  It constructs one value,  *)
(* cs, and calls its operations; the value a call returns becomes cs when   *)
(* the program goes on.  The other operand of a binary operation is         *)
(* constructed for the call.                                                *)

\* the number of calls of a run, the constructor included
MaxCalls == 3

\* the strings "ab" and "c"
AB == <<97, 98>>

C == <<99>>

Red == <<255, 0, 0>>

Blue == <<0, 0, 255>>

\* ESC [ n ; ... m for the numbers of l
Lit(l) == Encode([i \in 1..Len(l) |-> IntToBytes(l[i])])

\* the constructor calls: <<obj, color_spec, ansi_type, no_reset>>; an "sgr"
\* spec is given here as the list its SgrSequence is made from
CtorCalls ==
    <<  <<AB, NoSpec, "None", FALSE>>,
        <<None, NoSpec, "None", TRUE>>,
        <<AB, DictSpec(<< <<"fg", RgbSpec(Red)>> >>), "4b", FALSE>>,
        <<AB, KvSpec("bg", IntSpec(rgb2hex(Blue))), "8b", TRUE>>,
        <<AB, PairSpec(IntSpec(rgb2hex(<<255, 85, 85>>)), IntSpec(0)), "None", FALSE>>,
        <<AB, IntSpec(rgb2hex(<<0, 255, 0>>)), "24b", TRUE>>,
        <<AB, LiteralSpec(Lit(<<1, 31>>)), "4b", FALSE>>,
        <<Lit(<<31>>) \o AB \o SGR_RESET, NoSpec, "None", FALSE>>,
        <<AB, LiteralSpec(Lit(<<38, 5, 9>>)), "8b", TRUE>>,
        <<AB, SgrSpec(<<31, 48, 5, 9>>), "None", FALSE>>,
        <<AB, LiteralSpec(Lit(<<1, 3>>)), "None", FALSE>>,
        <<AB, LiteralSpec(Lit(<<31>>)), "8b", FALSE>>,
        <<Lit(<<31>>) \o AB, NoSpec, "None", FALSE>>  >>

\* the constructor calls that make the other operand
OtherCalls ==
    <<  <<C, DictSpec(<< <<"bg", RgbSpec(Blue)>> >>), "8b", TRUE>>,
        <<C, LiteralSpec(Lit(<<91>>)), "4b", FALSE>>,
        <<C, NoSpec, "None", FALSE>>,
        <<C, DictSpec(<< <<"fg", RgbSpec(<<0, 255, 0>>)>>, <<"bg", RgbSpec(Red)>> >>),
          "24b", TRUE>>,
        <<C, LiteralSpec(Lit(<<3, 4>>)), "None", FALSE>>  >>

\* the colours recolor is called with, as kwargs
RecolorKwargs ==
    <<  << <<"fg", rgb2hex(Red)>> >>,
        << <<"bg", rgb2hex(<<85, 85, 85>>)>> >>,
        << <<"fg", NoColor>>, <<"bg", rgb2hex(Blue)>> >>  >>

\* the codes update_sgr is called with; 27 is no SGR parameter
UpdateArgs ==
    {<<1>>, <<3>>, <<31>>, <<91>>, <<48>>, <<27>>, <<3, 27>>, <<NotAnInt>>, <<3, NotAnInt>>}

\* the constructor call c made on the heap h
Construct(h, c) ==
    IF c[2].t = "sgr"
    THEN Bind(Alloc(h, SgrFromList([i \in 1..Len(c[2].v) |-> IntItem(c[2].v[i])],
                                   "None").s), LAMBDA a :
             cs_new(a.heap, c[1], SgrSpec(a.id), c[3], c[4], DEFAULT_ANSI))
    ELSE cs_new(h, c[1], c[2], c[3], c[4], DEFAULT_ANSI)

\* what can be observed of the ColorStr c
Obs(h, c) ==
    IF c.sgr = 0 THEN <<>>
    ELSE [str |-> c.str, base_str |-> c.base_str, sgr_params |-> h[c.sgr].sgr_params,
          rgb_dict |-> h[c.sgr].rgb_dict, no_reset |-> c.no_reset,
          ansi_format |-> c.ansi_type]

NoCsCall ==
    [op |-> "", arg |-> <<>>, exc |-> "", obs |-> <<>>, other |-> NoValue,
     other_obs |-> <<>>, result |-> NoValue]

\* the call op(arg) on cs returned or raised r; h is the heap the call began with
Called(op, arg, h, other, r) ==
    /\ heap' = r.heap
    /\ last' = [op |-> op, arg |-> arg, exc |-> r.exc, obs |-> Obs(h, cs), other |-> other,
                other_obs |-> Obs(h, other), result |-> r.val]
    /\ UNCHANGED <<cs, seq, hist, cval, steps, DEFAULT_ANSI>>

CsNew(i) ==
    \E r \in {Construct(heap, CtorCalls[i])} : Called("new", i, heap, NoValue, r)

CsNewFrom(t) ==
    \E r \in {cs_new_from(heap, cs, t)} : Called("new_from", t, heap, NoValue, r)

CsAsAnsiType(t) ==
    \E r \in {as_ansi_type(heap, cs, t)} : Called("as_ansi_type", t, heap, NoValue, r)

CsRecolor(i, absolute) ==
    \E r \in {recolor(heap, cs, NoValue, absolute, RecolorKwargs[i])} :
        Called("recolor", <<i, absolute>>, heap, NoValue, r)

CsRecolorFrom(i) ==
    \E o \in {Construct(heap, OtherCalls[i])} :
        \E r \in {recolor(o.heap, cs, o.val, FALSE, <<>>)} :
            Called("recolor_from", i, o.heap, o.val, r)

CsInvert == \E r \in {invert(heap, cs)} : Called("invert", <<>>, heap, NoValue, r)

CsUpdateSgr(p) ==
    \E r \in {update_sgr(heap, cs, p)} : Called("update_sgr", p, heap, NoValue, r)

CsAdd(i) ==
    \E o \in {Construct(heap, OtherCalls[i])} :
        \E r \in {cs_add(o.heap, cs, o.val)} : Called("add", i, o.heap, o.val, r)

CsAddStr == \E r \in {cs_add_str(heap, cs, C)} : Called("add_str", <<>>, heap, NoValue, r)

CsMatMul(i) ==
    \E o \in {Construct(heap, OtherCalls[i])} :
        \E r \in {cs_matmul(o.heap, cs, o.val)} : Called("matmul", i, o.heap, o.val, r)

\* the keys the two rgb_dicts share are visited in the order of a set
CsSub(i) ==
    \E o \in {Construct(heap, OtherCalls[i])} :
        \E both \in {DictKeys(heap[cs.sgr].rgb_dict)
                        \cap DictKeys(o.heap[o.val.sgr].rgb_dict)} :
            \E keys \in {<<>>, <<"fg">>, <<"bg">>, <<"fg", "bg">>, <<"bg", "fg">>} :
                /\ {keys[j] : j \in 1..Len(keys)} = both
                /\ Len(keys) = Cardinality(both)
                /\ \E r \in {cs_sub(o.heap, cs, o.val, keys)} :
                       Called("sub", keys, o.heap, o.val, r)

CsGetItem == \E r \in {cs_getitem(heap, cs, 0, 1)} : Called("getitem", <<>>, heap, NoValue, r)

CsReplace == \E r \in {cs_replace(heap, cs, 97, C)} : Called("replace", <<>>, heap, NoValue, r)

CsSplit ==
    \E parts \in {cs_split(heap, cs, 98)} :
        \E i \in 1..Len(parts) : Called("split", <<i, Len(parts)>>, heap, NoValue, parts[i])

CsIter ==
    \E parts \in {cs_iter(heap, cs)} :
        \E i \in 1..Len(parts) : Called("iter", <<i, Len(parts)>>, heap, NoValue, parts[i])

\* the program goes on with the value the call returned; the objects it no
\* longer refers to are dropped
CsProceed ==
    LET v == IF last.exc = "" THEN last.result ELSE cs
    IN  /\ ~Ready
        /\ cs' = [v EXCEPT !.sgr = IF v.sgr = 0 THEN 0 ELSE 1]
        /\ heap' = IF v.sgr = 0 THEN <<>> ELSE <<heap[v.sgr]>>
        /\ last' = NoCsCall
        /\ steps' = steps + 1
        /\ UNCHANGED <<seq, hist, cval, DEFAULT_ANSI>>

Init ==
    /\ DEFAULT_ANSI \in {"4b", "8b"}
    /\ heap = <<>>
    /\ cs = NoValue
    /\ last = NoCsCall
    /\ steps = 0
    /\ seq = EmptySgr
    /\ hist = <<>>
    /\ cval = 0

Next ==
    \/ /\ Ready
       /\ steps < MaxCalls
       /\ cs = NoValue
       /\ \E i \in 1..Len(CtorCalls) : CsNew(i)
    \/ /\ Ready
       /\ steps < MaxCalls
       /\ cs # NoValue
       /\ \/ \E t \in {"None", "4b"} : CsNewFrom(t)
          \/ \E t \in AnsiTypes : CsAsAnsiType(t)
          \/ \E i \in 1..Len(RecolorKwargs), absolute \in BOOLEAN : CsRecolor(i, absolute)
          \/ \E i \in 1..Len(OtherCalls) : CsRecolorFrom(i)
          \/ CsInvert
          \/ \E p \in UpdateArgs : CsUpdateSgr(p)
          \/ \E i \in 1..Len(OtherCalls) : CsAdd(i)
          \/ CsAddStr
          \/ \E i \in 1..Len(OtherCalls) : CsMatMul(i)
          \/ \E i \in 1..Len(OtherCalls) : CsSub(i)
          \/ CsGetItem
          \/ CsReplace
          \/ CsSplit
          \/ CsIter
    \/ CsProceed

Spec == Init /\ [][Next]_vars

-----------------------------------------------------------------------------
(* Properties of ColorStr values, stated over Spec.                         *)

\* the call in last returned
Returned(op) == last.op = op /\ last.exc = ""

\* the SgrSequence of the ColorStr v
SgrOf(v) == heap[v.sgr]

\* the ColorStr values the program holds: cs, the other operand, the result
Held ==
    {v \in {cs, last.other} : v.sgr # 0}
    \cup (IF last.op # "" /\ last.exc = "" THEN {last.result} ELSE {})

\* the colour entries of slot k in a list of entries
SlotOf(params, k) == SelectSeq(params, LAMBDA p : IsColor(p) /\ DictHas(p.rgb_dict, k))

\* the entries of a list that are no colour
NonColors(params) == SelectSeq(params, LAMBDA p : ~IsColor(p))

\* the values of a list of entries
ValuesOf(params) == [i \in 1..Len(params) |-> params[i].value]

\* C1: slot exclusivity.  After any sequence of public operations every style
\* sequence holds at most one foreground and at most one background colour entry.
C1_SlotExclusivity ==
    \A i \in 1..Len(heap) : \A k \in {"fg", "bg"} : Len(SlotOf(heap[i].sgr_params, k)) <= 1

\* C2: serialization invariant.  The str of every ColorStr value is the encoding
\* of its SgrSequence, then base_str, then ESC[0m unless no_reset is true.
C2_Serialization ==
    \A v \in Held : v.str = FreshBytes(SgrOf(v)) \o v.base_str \o Suffix(v.no_reset)

\* C2 witness: a concatenation returned a value with two entries or more
C2_Witness ==
    /\ Returned("add")
    /\ Len(SgrOf(last.result).sgr_params) >= 2
    /\ last.result.base_str = AB \o C

\* C3: immutability.  A call on a ColorStr, returned or raised, leaves what can
\* be observed of the receiver and of the argument as it was before the call.
C3_Immutability ==
    last.op # "" =>
        /\ Obs(heap, cs) = last.obs
        /\ Obs(heap, last.other) = last.other_obs

\* C3 witness: update_sgr(3, 27) raised after it changed its copy
C3_Witness ==
    /\ last.op = "update_sgr"
    /\ last.arg = <<3, 27>>
    /\ last.exc = "ValueError"
    /\ Values(heap[Len(heap)]) # Values(SgrOf(cs))

\* C10: a + b has the no_reset flag of b, whatever the two flags are.
C10_ConcatNoReset ==
    Returned("add") => last.result.no_reset = last.other.no_reset

RECURSIVE Dedup(_)
\* the list l with every value kept at its first occurrence only
Dedup(l) ==
    IF l = <<>> THEN <<>>
    ELSE Bind(Dedup(SubSeq(l, 1, Len(l) - 1)), LAMBDA d :
             IF \E i \in 1..Len(d) : d[i] = l[Len(l)] THEN d ELSE Append(d, l[Len(l)]))

\* the colour entries of slot k that a + b is to hold: those of b, else those of a
MergedSlot(a, b, k) == IF SlotOf(b, k) # <<>> THEN SlotOf(b, k) ELSE SlotOf(a, k)

\* the part of the str of v before its base_str
EscapePrefix(v) ==
    SubSeq(v.str, 1, Len(v.str) - Len(v.base_str) - Len(Suffix(v.no_reset)))

\* the colour slot k of the rgb_dict d reports: <<rgb>>, or <<>> for no colour
Reported(d, k) == IF DictHas(d, k) THEN <<DictGet(d, k)>> ELSE <<>>

\* the sequence of the observation o holds the bold code
HoldsBold(o) == \E i \in 1..Len(o.sgr_params) : o.sgr_params[i].value = BOLD

\* C11: concatenation merges styles.  a + b returns; its base_str is a.base_str
\* followed by b.base_str and its str has a single escape prefix; a slot coloured
\* in one operand only keeps that colour (its code and the rgb it reports), a slot
\* coloured in both has the colour of b, and the non-colour codes of both operands
\* are present once each in the order of their first occurrence.  Operands that
\* hold the bold code are left out: merging folds bold into a bright colour.
C11_ConcatMerge ==
    (last.op = "add" /\ ~HoldsBold(last.obs) /\ ~HoldsBold(last.other_obs)) =>
        /\ last.exc = ""
        /\ last.result.base_str = last.obs.base_str \o last.other_obs.base_str
        /\ CountSub(EscapePrefix(last.result), CSI) <= 1
        /\ EscapePrefix(last.result) \o last.result.base_str
               \o Suffix(last.result.no_reset) = last.result.str
        /\ \A k \in {"fg", "bg"} :
               /\ ValuesOf(SlotOf(SgrOf(last.result).sgr_params, k))
                      = ValuesOf(MergedSlot(last.obs.sgr_params,
                                            last.other_obs.sgr_params, k))
               /\ Reported(SgrOf(last.result).rgb_dict, k)
                      = IF DictHas(last.other_obs.rgb_dict, k)
                        THEN Reported(last.other_obs.rgb_dict, k)
                        ELSE Reported(last.obs.rgb_dict, k)
        /\ ValuesOf(NonColors(SgrOf(last.result).sgr_params))
               = Dedup(ValuesOf(NonColors(last.obs.sgr_params))
                           \o ValuesOf(NonColors(last.other_obs.sgr_params)))

\* the operations that change the text only
TextOps == {"add_str", "getitem", "replace", "split", "iter"}

\* the str result of the text operation in last on the base_str b
TextResult(b) ==
    CASE last.op = "add_str" -> b \o C
      [] last.op = "getitem" -> Slice(b, 0, 1)
      [] last.op = "replace" -> StrReplace(b, 97, C)
      [] last.op = "split" -> SplitB(b, 98)[last.arg[1]]
      [] last.op = "iter" -> <<b[last.arg[1]]>>

\* C12: text-only operations keep the style.  cs + "c", cs[0:1], cs.replace,
\* every part of cs.split and every value cs yields in iteration are ColorStr
\* values with the entries, rgb_dict, no_reset and ansi_format of cs and with the
\* str result on the base_str of cs as base_str; iteration yields len(base_str)
\* values, one per character in order, yields the same values when it is started
\* again, and len of a ColorStr is the length of its base_str.
C12_TextOpsKeepStyle ==
    last.op \in TextOps =>
        /\ last.exc = ""
        /\ SgrOf(last.result).sgr_params = last.obs.sgr_params
        /\ SgrOf(last.result).rgb_dict = last.obs.rgb_dict
        /\ last.result.no_reset = last.obs.no_reset
        /\ last.result.ansi_type = last.obs.ansi_format
        /\ last.result.base_str = TextResult(last.obs.base_str)
        /\ cs_len(last.result) = Len(TextResult(last.obs.base_str))
        /\ cs_len(cs) = Len(last.obs.base_str)
        /\ last.op = "split" => last.arg[2] = Len(SplitB(last.obs.base_str, 98))
        /\ last.op = "iter" =>
               /\ last.arg[2] = cs_len(cs)
               /\ \E again \in {cs_iter(heap, cs)} :
                      /\ Len(again) = last.arg[2]
                      /\ again[last.arg[1]].exc = ""
                      /\ again[last.arg[1]].val = last.result

\* C12 witness: a slice of one character of a styled ColorStr of two characters
C12_Witness ==
    /\ Returned("getitem")
    /\ last.obs.base_str = AB
    /\ last.result.base_str = <<97>>
    /\ last.obs.sgr_params # <<>>

\* the slots that the kwargs kw give with a colour
GivenSlots(kw) == {kw[j][1] : j \in {j \in 1..Len(kw) : kw[j][2] # NoColor}}

\* the colour that the kwargs kw give for the slot k
GivenColor(kw, k) == hex2rgb(kw[CHOOSE j \in 1..Len(kw) : kw[j][1] = k][2])

\* C13: recolor without absolute.  For every ColorStr cs and kwargs that give a
\* colour for one slot or more, cs.recolor(**kwargs) returns; each slot given
\* with a colour holds one entry and reports the given colour, every other slot,
\* a slot given as None included, keeps its entry and its colour, and the
\* non-colour entries, base_str and no_reset are those of cs.
C13_Recolor ==
    (last.op = "recolor" /\ last.arg[2] = FALSE) =>
        \E kw \in {RecolorKwargs[last.arg[1]]} :
            /\ last.exc = ""
            /\ \A k \in GivenSlots(kw) :
                   /\ Len(SlotOf(SgrOf(last.result).sgr_params, k)) = 1
                   /\ Reported(SgrOf(last.result).rgb_dict, k) = <<GivenColor(kw, k)>>
            /\ \A k \in {"fg", "bg"} \ GivenSlots(kw) :
                   /\ SlotOf(SgrOf(last.result).sgr_params, k) = SlotOf(last.obs.sgr_params, k)
                   /\ Reported(SgrOf(last.result).rgb_dict, k) = Reported(last.obs.rgb_dict, k)
            /\ NonColors(SgrOf(last.result).sgr_params) = NonColors(last.obs.sgr_params)
            /\ last.result.base_str = last.obs.base_str
            /\ last.result.no_reset = last.obs.no_reset

\* C14: recolor with absolute=True.  For every ColorStr cs, with no colour, one
\* or two, cs.recolor(absolute=True, **kwargs) returns; the colour slots of the
\* result are exactly the slots given with a colour, each with one entry that
\* reports the given colour, and the non-colour entries are those of cs.
C14_RecolorAbsolute ==
    (last.op = "recolor" /\ last.arg[2] = TRUE) =>
        \E kw \in {RecolorKwargs[last.arg[1]]} :
            /\ last.exc = ""
            /\ \A k \in GivenSlots(kw) :
                   /\ Len(SlotOf(SgrOf(last.result).sgr_params, k)) = 1
                   /\ Reported(SgrOf(last.result).rgb_dict, k) = <<GivenColor(kw, k)>>
            /\ \A k \in {"fg", "bg"} \ GivenSlots(kw) :
                   /\ SlotOf(SgrOf(last.result).sgr_params, k) = <<>>
                   /\ Reported(SgrOf(last.result).rgb_dict, k) = <<>>
            /\ NonColors(SgrOf(last.result).sgr_params) = NonColors(last.obs.sgr_params)

\* the slots that both operands of the call in last colour
SharedSlots == DictKeys(last.obs.rgb_dict) \cap DictKeys(last.other_obs.rgb_dict)

\* C15: difference.  For ColorStr a and b, a - b returns; each slot coloured in
\* both holds one entry and reports the per-channel absolute difference of the
\* two colours, every other slot keeps its entry and its colour, and a itself is
\* returned when the operands share no slot.
C15_Difference ==
    last.op = "sub" =>
        /\ last.exc = ""
        /\ SharedSlots = {} => last.result = cs
        /\ \A k \in SharedSlots :
               /\ Len(SlotOf(SgrOf(last.result).sgr_params, k)) = 1
               /\ Reported(SgrOf(last.result).rgb_dict, k)
                      = <<rgb_diff(DictGet(last.obs.rgb_dict, k),
                                   DictGet(last.other_obs.rgb_dict, k))>>
        /\ \A k \in {"fg", "bg"} \ SharedSlots :
               /\ SlotOf(SgrOf(last.result).sgr_params, k) = SlotOf(last.obs.sgr_params, k)
               /\ Reported(SgrOf(last.result).rgb_dict, k) = Reported(last.obs.rgb_dict, k)
        /\ NonColors(SgrOf(last.result).sgr_params) = NonColors(last.obs.sgr_params)
        /\ last.result.base_str = last.obs.base_str

\* the entries of the list without those of the value v
Without(params, v) == SelectSeq(params, LAMBDA p : p.value # v)

\* the entries of the list with every bright 4-bit colour at standard intensity
Demoted(params) ==
    [i \in 1..Len(params) |->
        IF params[i].cls = "4b" /\ BytesToInt(params[i].value) \in ANSI16C_BRIGHT
        THEN IntToBytes(BytesToInt(params[i].value) - 60)
        ELSE params[i].value]

\* the values a sequence of the entries params has once the code x, which it
\* does not hold, is added to it: the set of the lists the toggle may give
Toggled(params, x) ==
    IF x \in ANSI16C
    THEN LET k == ANSI16C_I2KV(x)[1]
             kept == SelectSeq(params, LAMBDA p : ~(IsColor(p) /\ DictHas(p.rgb_dict, k)))
         IN  {Append(ValuesOf(kept), IntToBytes(x))}
                 \cup (IF x \in ANSI16C_STD /\ Without(kept, BOLD) # kept
                       THEN {Append(ValuesOf(Without(kept, BOLD)), IntToBytes(x + 60))}
                       ELSE {})
    ELSE {Append(ValuesOf(params), IntToBytes(x))}
             \cup (IF x = 1 /\ Demoted(params) # ValuesOf(params)
                   THEN {Demoted(params)} ELSE {})

\* C16: toggle.  For every ColorStr cs and every SGR code x other than 38 and
\* 48, cs.update_sgr(x) returns; when cs holds x the result holds the entries of
\* cs without x, otherwise it holds the entries of cs with x added, where adding
\* bold to a bright 4-bit colour may instead demote the colour and adding a
\* colour replaces the colour of its slot.
C16_Toggle ==
    (last.op = "update_sgr" /\ Len(last.arg) = 1
        /\ last.arg[1] \in SGR_PARAM_VALUES \ {38, 48}) =>
        \E x \in {last.arg[1]} :
            /\ last.exc = ""
            /\ IF Without(last.obs.sgr_params, IntToBytes(x)) # last.obs.sgr_params
               THEN Values(SgrOf(last.result))
                        = ValuesOf(Without(last.obs.sgr_params, IntToBytes(x)))
               ELSE Values(SgrOf(last.result)) \in Toggled(last.obs.sgr_params, x)
            /\ last.result.base_str = last.obs.base_str

\* numbers that are no SGR code
RejectedCodes == (-1..108) \ SGR_PARAM_VALUES

\* the codes remove is tried with
RemoveCodes == CallCodes \cup {4, 38}

\* the sequence s holds no entry of the code v
Absent(s, v) == Without(s.sgr_params, IntToBytes(v)) = s.sgr_params

\* one of the arguments p is rejected by update_sgr
Rejected(p) ==
    \E j \in 1..Len(p) : p[j] = NotAnInt \/ p[j] \in {38, 48} \/ p[j] \notin SGR_PARAM_VALUES

WireFamily(v) ==
    Bind(SplitB(v, SEMI), LAMBDA parts :
        IF Len(parts) = 1 THEN "4b" ELSE IF parts[2] = <<53>> THEN "8b" ELSE "24b")

\* the slot of the bytes v of a colour
WireSlot(v) ==
    CHOOSE k \in {"fg", "bg"} :
        \E parts \in {SplitB(v, SEMI)} :
            IF Len(parts) = 1 THEN BytesToInt(v) \in {c \in ANSI16C : ANSI16C_I2KV(c)[1] = k}
            ELSE parts[1] = IntToBytes(ANSI256_KEY2I(k))

\* every colour entry of the list is encoded in the wire family t
AllEncodedIn(params, t) ==
    \A i \in 1..Len(params) : IsColor(params[i]) => WireFamily(params[i].value) = t

\* C18: format conversion.  For every ColorStr cs and every format t,
\* cs.as_ansi_type(t) returns a value whose colour entries are all encoded in
\* the wire family of t, each at the place and with the slot of the entry of cs;
\* the non-colour entries, base_str and no_reset are those of cs, and cs itself
\* is returned exactly when every colour entry of cs is encoded in t already.
C18_FormatConversion ==
    last.op = "as_ansi_type" =>
        \E old \in {last.obs.sgr_params}, new \in {SgrOf(last.result).sgr_params} :
            /\ last.exc = ""
            /\ AllEncodedIn(new, last.arg)
            /\ Len(new) = Len(old)
            /\ \A i \in 1..Len(old) :
                   IF IsColor(old[i])
                   THEN IsColor(new[i]) /\ WireSlot(new[i].value) = WireSlot(old[i].value)
                   ELSE new[i] = old[i]
            /\ last.result.base_str = last.obs.base_str
            /\ last.result.no_reset = last.obs.no_reset
            /\ (last.result = cs) <=> AllEncodedIn(old, last.arg)

\* the rgb of the colour that the bytes v encode: the palette rgb of the index
\* of a 4-bit or an 8-bit code, the channels r, g, b of a 24-bit code
EncodedRgb(v) ==
    Bind(SplitB(v, SEMI), LAMBDA parts :
        IF Len(parts) = 1 THEN ansi_4bit_to_rgb(BytesToInt(v))
        ELSE IF parts[2] = <<53>> THEN ansi_8bit_to_rgb(BytesToInt(parts[3]))
        ELSE <<BytesToInt(parts[3]), BytesToInt(parts[4]), BytesToInt(parts[5])>>)

\* the colour value v reports the rgb of the code that its bytes encode
PaletteExact(v) ==
    /\ Len(v.rgb_dict) = 1
    /\ v.rgb_dict[1][2] = EncodedRgb(v.value)

\* C19: the resolved colour is palette-exact.  A colour value that was parsed
\* from bytes, by colorbytes(...) or by SgrSequence, built with from_rgb from an
\* rgb, or converted to another format reports through rgb_dict the palette rgb
\* of the index it encodes, and the encoded r, g, b when it is a 24-bit code.
C19_PaletteExact ==
    /\ (last.op \in {"colorbytes", "from_rgb", "convert"} /\ last.exc = "") =>
           PaletteExact(last.items[1])
    /\ (last.op = "new_literal" /\ last.exc = "") =>
           \A i \in 1..Len(seq.sgr_params) :
               IsColor(seq.sgr_params[i]) => PaletteExact(seq.sgr_params[i])

\* the constructor calls ColorStr(string) whose string starts with an escape
LiteralCalls ==
    {i \in 1..Len(CtorCalls) :
        /\ CtorCalls[i][1] # None
        /\ CtorCalls[i][2].t = "none"
        /\ StartsWith(CtorCalls[i][1], CSI)}

\* the parameters P;...;P of the escape sequence that the string b starts with
LeadingParams(b) == SplitB(SubSeq(b, Len(CSI) + 1, FindByte(b, LOWER_M)), SEMI)

\* the text of the string b after the m that ends its leading escape sequence,
\* without a trailing reset
TextAfterEscape(b) == RemoveSuffix(SubSeq(b, FindByte(b, LOWER_M) + 2, Len(b)), SGR_RESET)

\* C20: literal construction.  ColorStr(string) of a string that starts with one
\* escape sequence ESC[ P;...;P m followed by text, with a trailing ESC[0m or
\* without, returns a value whose entries are the parameters of that escape
\* sequence and whose base_str is all the text after its m, less a trailing reset.
C20_LiteralConstruction ==
    (last.op = "new" /\ last.arg \in LiteralCalls) =>
        \E obj \in {CtorCalls[last.arg][1]} :
            /\ last.exc = ""
            /\ Values(SgrOf(last.result)) = LeadingParams(obj)
            /\ last.result.base_str = TextAfterEscape(obj)

\* C21: ansi_type at construction.  ColorStr(obj, color_spec, ansi_type=t), for
\* a structured colour spec, a literal escape sequence and an SgrSequence object
\* as color_spec, returns, whatever the format of the colours of color_spec; the
\* ansi_format of the result is t and all its colour entries are encoded in the
\* wire family of t.
C21_AnsiTypeAtConstruction ==
    (last.op = "new" /\ CtorCalls[last.arg][3] # "None") =>
        /\ last.exc = ""
        /\ last.result.ansi_type = CtorCalls[last.arg][3]
        /\ AllEncodedIn(SgrOf(last.result).sgr_params, CtorCalls[last.arg][3])


-----------------------------------------------------------------------------
(* _solve_color_spec as a function of the colour spec it is given.  Here    *)
(* cval is the spec: a position of SpecElements, or two positions for the   *)
(* two-element sequence of the two.                                         *)

\* scalars, (key, colour) pairs and dicts
SpecElements ==
    <<  IntSpec(rgb2hex(Red)),
        IntSpec(rgb2hex(Blue)),
        RgbSpec(Red),
        RgbSpec(Blue),
        KvSpec("fg", RgbSpec(Red)),
        KvSpec("fg", RgbSpec(Blue)),
        KvSpec("bg", RgbSpec(Red)),
        KvSpec("bg", IntSpec(rgb2hex(Blue))),
        DictSpec(<< <<"fg", RgbSpec(Red)>> >>),
        DictSpec(<< <<"fg", RgbSpec(Blue)>>, <<"bg", RgbSpec(Red)>> >>),
        DictSpec(<< <<"bg", IntSpec(rgb2hex(Blue))>> >>)  >>

\* the colour spec cval stands for
GivenSpec ==
    IF cval[2] = 0 THEN SpecElements[cval[1]]
    ELSE PairSpec(SpecElements[cval[1]], SpecElements[cval[2]])

\* _solve_color_spec(color_spec, t)
SolveColorSpec(t) ==
    /\ Ready
    /\ \E r \in {solve_color_spec(GivenSpec, t)} :
           /\ seq' = r.s
           /\ last' = [NoCall EXCEPT !.op = "solve", !.arg = t, !.exc = r.exc]
    /\ UNCHANGED <<steps, hist, cval, heap, cs, DEFAULT_ANSI>>

InitSolve ==
    /\ cval \in (1..Len(SpecElements)) \X (0..Len(SpecElements))
    /\ NoColorStrs
    /\ seq = EmptySgr
    /\ last = NoCall
    /\ steps = 0
    /\ hist = <<>>

NextSolve == \E t \in AnsiTypes : SolveColorSpec(t)

SpecSolve == InitSolve /\ [][NextSolve]_vars

IsScalar(e) == e.t \in {"int", "rgb"}

\* the RGB a scalar stands for
ScalarRgb(e) == IF e.t = "int" THEN ColorRgb(e.v) ELSE e.v

\* the (slot, RGB) pairs an element names by key
NamedSlots(e) ==
    IF e.t = "kv" THEN {<<e.k, ScalarRgb(e.v)>>}
    ELSE IF e.t = "dict" THEN {<<e.v[i][1], ScalarRgb(e.v[i][2])>> : i \in 1..Len(e.v)}
    ELSE {}

\* the spec names one slot twice, with different colours
NamesSlotTwice(e) ==
    /\ e.t = "pair"
    /\ \E x \in NamedSlots(e.v[1]), y \in NamedSlots(e.v[2]) : x[1] = y[1] /\ x[2] # y[2]

\* C22: colour-spec conflicts are rejected.  A colour spec that names the same slot
\* twice with different colours fails with ValueError; a scalar resolves to fg, and
\* a two-element pair of scalars to (fg, bg) in that order.
C22_ColorSpecConflicts ==
    last.op = "solve" =>
        /\ NamesSlotTwice(GivenSpec) => last.exc = "ValueError"
        /\ IsScalar(GivenSpec) =>
                /\ last.exc = ""
                /\ seq.rgb_dict = << <<"fg", ScalarRgb(GivenSpec)>> >>
        /\ (GivenSpec.t = "pair" /\ IsScalar(GivenSpec.v[1]) /\ IsScalar(GivenSpec.v[2])) =>
                /\ last.exc = ""
                /\ DictKeys(seq.rgb_dict) = {"fg", "bg"}
                /\ DictGet(seq.rgb_dict, "fg") = ScalarRgb(GivenSpec.v[1])
                /\ DictGet(seq.rgb_dict, "bg") = ScalarRgb(GivenSpec.v[2])

\* the constructor calls with plain text, no colour spec and default arguments
PlainTextCalls ==
    {i \in 1..Len(CtorCalls) :
        /\ CtorCalls[i][1] # None
        /\ ~StartsWith(CtorCalls[i][1], CSI)
        /\ CtorCalls[i][2].t = "none"
        /\ CtorCalls[i][3] = "None"
        /\ CtorCalls[i][4] = FALSE}

\* C23: serialization of empty style.  A ColorStr built from plain text with no
\* colour or style spec and default arguments serializes to exactly the input text,
\* with no escape bytes and no trailing reset.
C23_EmptyStyle ==
    (last.op = "new" /\ last.arg \in PlainTextCalls) =>
        (last.exc = "" /\ last.result.str = CtorCalls[last.arg][1])

\* C24: encoding with cache.  After any series of construction, append, pop,
\* remove and merge, bytes(sequence) is the encoding computed from the current
\* entries: the cached value is never stale.
C24_EncodingCache == SgrBytes(seq) = FreshBytes(seq)

-----------------------------------------------------------------------------
(* _get_sgr_bitmask as a function of the byte string it is given.  Here     *)
(* cval is <<wrapped, b>>: the bytes b of digits and ';', given as they     *)
(* are or as ESC [ b m.                                                     *)

\* the longest string of digits and ';'
MaxFieldBytes == 3

\* the bytes of '0', '1', '3' and ';'
FieldBytes == {48, 49, 51, SEMI}

\* the byte string the function is called with
GivenBytes == IF cval[1] THEN CSI \o cval[2] \o <<LOWER_M>> ELSE cval[2]

\* _get_sgr_bitmask(x)
GetSgrBitmask ==
    /\ Ready
    /\ \E r \in {get_sgr_bitmask(GivenBytes)} :
           last' = [NoCall EXCEPT !.op = "bitmask", !.items = r.ints, !.exc = r.exc]
    /\ UNCHANGED <<seq, steps, hist, cval, heap, cs, DEFAULT_ANSI>>

InitBitmask ==
    /\ cval \in BOOLEAN \X UNION {[1..n -> FieldBytes] : n \in 0..MaxFieldBytes}
    /\ NoColorStrs
    /\ seq = EmptySgr
    /\ last = NoCall
    /\ steps = 0
    /\ hist = <<>>

NextBitmask == GetSgrBitmask

SpecBitmask == InitBitmask /\ [][NextBitmask]_vars

\* list(map(int, b.split(b';'))): [exc, ints]
SplitAndInt(b) ==
    LET ints == [i \in 1..Len(SplitB(b, SEMI)) |-> BytesToInt(SplitB(b, SEMI)[i])]
    IN  IF \E i \in 1..Len(ints) : ints[i] = -1
        THEN [exc |-> "ValueError", ints |-> <<>>]
        ELSE [exc |-> "", ints |-> ints]

\* C25: _get_sgr_bitmask is equivalent to splitting on ';' and converting each
\* field with int.  For every byte string of decimal digits and ';', as it is or
\* wrapped in ESC[ ... m, it returns the list list(map(int, x.split(b';'))) and
\* it fails exactly when that reference fails.
C25_BitmaskEquivalence ==
    last.op = "bitmask" =>
        /\ (last.exc # "") = (SplitAndInt(cval[2]).exc # "")
        /\ last.exc = "" => last.items = SplitAndInt(cval[2]).ints

\* the colour bookkeeping of the sequence s is coherent: rgb_dict has the key k
\* exactly when the entries hold a colour entry of slot k, and the RGB it stores
\* is the RGB of such an entry
Coherent(s) ==
    \A k \in {"fg", "bg"} :
        /\ DictHas(s.rgb_dict, k) <=> SlotOf(s.sgr_params, k) # <<>>
        /\ DictHas(s.rgb_dict, k) =>
                \E i \in 1..Len(SlotOf(s.sgr_params, k)) :
                    DictGet(SlotOf(s.sgr_params, k)[i].rgb_dict, k) = DictGet(s.rgb_dict, k)

\* C26: colour bookkeeping is coherent.  In every SgrSequence reachable through the
\* public operations, the state left behind by an operation that raises included,
\* rgb_dict has the key 'fg' (resp. 'bg') exactly when the entry list contains a
\* colour entry for that slot, and the stored RGB is the RGB of that entry.
C26_ColorBookkeeping == \A id \in 1..Len(heap) : Coherent(heap[id])

\* the entry p is a bright 4-bit colour: 90-97 or 100-107
IsBrightEntry(p) == p.cls = "4b" /\ BytesToInt(p.value) \in ANSI16C_BRIGHT

\* C27: has_bright_colors is accurate.  In every SgrSequence reachable through
\* construction, append, pop, remove and merge, has_bright_colors is true exactly
\* when the entry list contains a bright 4-bit colour entry (90-97 or 100-107).
C27_BrightFlag ==
    seq.has_bright_colors <=> \E i \in 1..Len(seq.sgr_params) : IsBrightEntry(seq.sgr_params[i])

\* C28: format tag matches wire form.  Every colour code value made by the
\* colorbytes constructors or by from_rgb, a conversion from another format
\* included, has the class of the family of its bytes, and the constructor of the
\* subclass T returns an instance of T.
C28_FormatTag ==
    (last.op \in {"colorbytes", "from_rgb", "convert"} /\ last.exc = "") =>
        /\ last.items[1].cls = WireFamily(last.items[1].value)
        /\ last.op = "convert" => last.items[1].cls = last.arg

\* the calls x and y both raise, or both return and the results are equal
SameOutcome(x, y) ==
    \/ x.exc # "" /\ y.exc # ""
    \/ x.exc = "" /\ y.exc = "" /\ x.val.str = y.val.str

\* the value b of the heap h behaves as cs does under invert, update_sgr,
\* as_ansi_type and recolor
BehavesAsCs(h, b) ==
    /\ \A x \in {invert(h, cs)}, y \in {invert(h, b)} : SameOutcome(x, y)
    /\ \A p \in UpdateArgs :
            \A x \in {update_sgr(h, cs, p)}, y \in {update_sgr(h, b, p)} : SameOutcome(x, y)
    /\ \A t \in AnsiTypes :
            \A x \in {as_ansi_type(h, cs, t)}, y \in {as_ansi_type(h, b, t)} : SameOutcome(x, y)
    /\ \A i \in 1..Len(RecolorKwargs), absolute \in BOOLEAN :
            \A x \in {recolor(h, cs, NoValue, absolute, RecolorKwargs[i])},
               y \in {recolor(h, b, NoValue, absolute, RecolorKwargs[i])} : SameOutcome(x, y)

\* C29: equal values behave equally.  For the value cs the program holds and any
\* constructed value b with cs == b (the same str) and the same ansi_format, the
\* same operation with the same arguments (invert, update_sgr, as_ansi_type,
\* recolor) raises for both or returns equal results.
C29_EqualValuesBehaveEqually ==
    (Ready /\ cs # NoValue) =>
        \A i \in 1..Len(CtorCalls) :
            \A o \in {Construct(heap, CtorCalls[i])} :
                (o.exc = "" /\ o.val.str = cs.str /\ o.val.ansi_type = cs.ansi_type) =>
                    BehavesAsCs(o.heap, o.val)

\* the SGR codes the toggle is applied twice with
ToggleCodes == {p[1] : p \in {q \in UpdateArgs : Len(q) = 1}} \cap (SGR_PARAM_VALUES \ {38, 48})

\* the set of the entries of the sequence s, and its colours
ActiveCodes(s) == {s.sgr_params[i].value : i \in 1..Len(s.sgr_params)}

ActiveColors(s) == {s.rgb_dict[i] : i \in 1..Len(s.rgb_dict)}

\* C30: toggle is an involution on the set of active codes.  For every ColorStr cs
\* and every valid SGR code x other than 38 and 48, cs.update_sgr(x).update_sgr(x)
\* returns a value with the same set of SGR entries and the same colours as cs;
\* this includes x = 1 on a sequence that holds a bright 4-bit colour.
C30_ToggleInvolution ==
    (Ready /\ cs # NoValue) =>
        \A x \in ToggleCodes :
            \A once \in {update_sgr(heap, cs, <<x>>)} :
                /\ once.exc = ""
                /\ \A twice \in {update_sgr(once.heap, once.val, <<x>>)} :
                       /\ twice.exc = ""
                       /\ ActiveCodes(twice.heap[twice.val.sgr]) = ActiveCodes(SgrOf(cs))
                       /\ ActiveColors(twice.heap[twice.val.sgr]) = ActiveColors(SgrOf(cs))

====
